---- MODULE Spec2Model ----
(***************************************************************************)
(* Field sanitisation and record validation engine of the Multinational    *)
(* Retail Data Centralisation project: the decorators of                   *)
(* data_cleaning/decorators.py, the column validators of                   *)
(* data_cleaning/data_cleaning_generic.py and the entity pipelines of      *)
(* data_cleaning/data_cleaning_MRDC.py, with the table producer            *)
(* data_ingestion/data_extraction.py and the load script milestone_2.py    *)
(* that calls them.                                                        *)
(*                                                                         *)
(* A text is a sequence of one-character tokens.  A cell is a record       *)
(* [k, v]: k is the kind of value pandas holds in the cell ("str", "nan",  *)
(* "float", "int", "date", "nat") and v its value: the text of a string,   *)
(* <<mantissa, scale>> of a float (mantissa / 10^scale), <<n>> of an int,  *)
(* <<yyyymmdd>> of a date.                                                 *)
(***************************************************************************)
EXTENDS Integers, Sequences, FiniteSets, TLC

VARIABLES entity, raw, df, pc, step, result, err, trace, run, args, io

vars == <<entity, raw, df, pc, step, result, err, trace, run, args, io>>

(***************************************************************************)
(* Bounds of the model.                                                    *)
(***************************************************************************)
MaxRows == 2
MaxDev == 1

(***************************************************************************)
(* Characters and texts.                                                   *)
(***************************************************************************)
Digits == {"0", "1", "2", "3", "4", "5", "6", "7", "8", "9"}

Whitespace == {" ", "\n", "\t"}

IsDigit(c) == c \in Digits

DigitVal(c) ==
  CASE c = "0" -> 0 [] c = "1" -> 1 [] c = "2" -> 2 [] c = "3" -> 3
    [] c = "4" -> 4 [] c = "5" -> 5 [] c = "6" -> 6 [] c = "7" -> 7
    [] c = "8" -> 8 [] c = "9" -> 9

DigitChar(n) == <<"0", "1", "2", "3", "4", "5", "6", "7", "8", "9">>[n + 1]

Range(s) == {s[i] : i \in DOMAIN s}

AllIn(s, S) == \A i \in DOMAIN s : s[i] \in S

KeepOnly(s, S) == SelectSeq(s, LAMBDA c : c \in S)

RemoveAll(s, S) == SelectSeq(s, LAMBDA c : c \notin S)

(* str.strip(): drop leading and trailing whitespace *)
Strip(s) ==
  LET NonWs == {i \in DOMAIN s : s[i] \notin Whitespace}
  IN IF NonWs = {} THEN <<>>
     ELSE LET lo == CHOOSE i \in NonWs : \A j \in NonWs : i <= j
              hi == CHOOSE i \in NonWs : \A j \in NonWs : i >= j
          IN SubSeq(s, lo, hi)

(* re.search of an anchored pattern ^P$: '$' also matches just before a    *)
(* newline that ends the text *)
SearchAnchored(P(_), s) ==
  \/ P(s)
  \/ Len(s) > 0 /\ s[Len(s)] = "\n" /\ P(SubSeq(s, 1, Len(s) - 1))

(* str.capitalize(): first character upper-cased, the rest lower-cased *)
LowerLetters ==
  <<"a", "b", "c", "d", "e", "f", "g", "h", "i", "j", "k", "l", "m", "n", "o",
    "p", "q", "r", "s", "t", "u", "v", "w", "x", "y", "z">>

UpperLetters ==
  <<"A", "B", "C", "D", "E", "F", "G", "H", "I", "J", "K", "L", "M", "N", "O",
    "P", "Q", "R", "S", "T", "U", "V", "W", "X", "Y", "Z">>

Upper(c) ==
  IF \E i \in 1..26 : LowerLetters[i] = c
  THEN UpperLetters[CHOOSE i \in 1..26 : LowerLetters[i] = c] ELSE c

Lower(c) ==
  IF \E i \in 1..26 : UpperLetters[i] = c
  THEN LowerLetters[CHOOSE i \in 1..26 : UpperLetters[i] = c] ELSE c

Capitalize(s) ==
  [i \in DOMAIN s |-> IF i = 1 THEN Upper(s[i]) ELSE Lower(s[i])]

(***************************************************************************)
(* Numbers and their text forms.                                           *)
(***************************************************************************)
RECURSIVE Pow10(_)
Pow10(n) == IF n = 0 THEN 1 ELSE 10 * Pow10(n - 1)

RECURSIVE DigitsToNat(_)
DigitsToNat(s) ==
  IF s = <<>> THEN 0
  ELSE 10 * DigitsToNat(SubSeq(s, 1, Len(s) - 1)) + DigitVal(s[Len(s)])

RECURSIVE NatToDigits(_)
NatToDigits(n) ==
  IF n < 10 THEN <<DigitChar(n)>>
  ELSE NatToDigits(n \div 10) \o <<DigitChar(n % 10)>>

(* a float <<m, e>> is m / 10^e, kept with the smallest scale *)
RECURSIVE NormFloat(_)
NormFloat(f) ==
  IF f[2] > 0 /\ f[1] % 10 = 0 THEN NormFloat(<<f[1] \div 10, f[2] - 1>>)
  ELSE f

(* float(text): the literals Python accepts among texts of digits, '.', '-' *)
IsFloatLiteral(s) ==
  LET u == IF Len(s) > 0 /\ s[1] = "-" THEN Tail(s) ELSE s
      dots == {i \in DOMAIN u : u[i] = "."}
  IN /\ AllIn(u, Digits \cup {"."})
     /\ Cardinality(dots) <= 1
     /\ \E i \in DOMAIN u : IsDigit(u[i])

ParseFloat(s) ==
  LET neg == Len(s) > 0 /\ s[1] = "-"
      u == IF neg THEN Tail(s) ELSE s
      dots == {i \in DOMAIN u : u[i] = "."}
      d == IF dots = {} THEN 0 ELSE CHOOSE i \in dots : TRUE
      m == DigitsToNat(RemoveAll(u, {"."}))
  IN NormFloat(<<IF neg THEN 0 - m ELSE m,
                  IF dots = {} THEN 0 ELSE Len(u) - d>>)

(* str(float): repr of the float, always with a fractional part *)
FloatStr(f) ==
  LET a == IF f[1] < 0 THEN 0 - f[1] ELSE f[1]
      ip == NatToDigits(a \div Pow10(f[2]))
      fr == a % Pow10(f[2])
      frd == NatToDigits(fr)
      pad == [i \in 1..(f[2] - Len(frd)) |-> "0"]
  IN (IF f[1] < 0 THEN <<"-">> ELSE <<>>) \o ip \o <<".">>
       \o (IF f[2] = 0 THEN <<"0">> ELSE pad \o frd)

(* int(float): truncation towards zero *)
TruncFloat(f) ==
  LET a == IF f[1] < 0 THEN 0 - f[1] ELSE f[1]
      q == a \div Pow10(f[2])
  IN IF f[1] < 0 THEN 0 - q ELSE q

IntStr(n) == IF n < 0 THEN <<"-">> \o NatToDigits(0 - n) ELSE NatToDigits(n)

(***************************************************************************)
(* Cells and tables.  A table is [cols, rows]: cols the column names in    *)
(* order, rows a sequence of [idx, c] with idx the row's index label and   *)
(* c the cells by column name.                                             *)
(***************************************************************************)
StrCell(s) == [k |-> "str", v |-> s]

NaN == [k |-> "nan", v |-> <<>>]

NaT == [k |-> "nat", v |-> <<>>]

FloatCell(f) == [k |-> "float", v |-> f]

IntCell(n) == [k |-> "int", v |-> <<n>>]

DateCell(d) == [k |-> "date", v |-> <<d>>]

(* pd.isna *)
IsNa(x) == x.k \in {"nan", "nat"}

(* str(value): the text astype(str) gives a cell *)
DateStr(d) ==
  LET y == NatToDigits(d \div 10000)
      m == NatToDigits(100 + ((d \div 100) % 100))
      dd == NatToDigits(100 + (d % 100))
  IN y \o <<"-">> \o Tail(m) \o <<"-">> \o Tail(dd)

AsText(x) ==
  CASE x.k = "str" -> x.v
    [] x.k = "nan" -> <<"n", "a", "n">>
    [] x.k = "nat" -> <<"N", "a", "T">>
    [] x.k = "float" -> FloatStr(x.v)
    [] x.k = "int" -> IntStr(x.v[1])
    [] x.k = "date" -> DateStr(x.v[1])

EmptyFrame == [cols |-> <<>>, rows |-> <<>>]

ColSet(t) == Range(t.cols)

HasCol(t, col) == col \in ColSet(t)

MapCol(t, col, F(_)) ==
  [t EXCEPT !.rows = [i \in DOMAIN t.rows |->
      [idx |-> t.rows[i].idx,
       c |-> [x \in DOMAIN t.rows[i].c |->
                IF x = col THEN F(t.rows[i].c[x]) ELSE t.rows[i].c[x]]]]]

MapAll(t, F(_)) ==
  [t EXCEPT !.rows = [i \in DOMAIN t.rows |->
      [idx |-> t.rows[i].idx,
       c |-> [x \in DOMAIN t.rows[i].c |-> F(t.rows[i].c[x])]]]]

(* df.drop(cols, axis=1) for columns that exist *)
DropCols(t, S) ==
  [cols |-> SelectSeq(t.cols, LAMBDA x : x \notin S),
   rows |-> [i \in DOMAIN t.rows |->
      [idx |-> t.rows[i].idx,
       c |-> [x \in DOMAIN t.rows[i].c \ S |-> t.rows[i].c[x]]]]]

(* df.dropna(subset=S): rows without an absent cell in the columns S *)
DropnaRows(t, S) ==
  [t EXCEPT !.rows =
      SelectSeq(t.rows, LAMBDA r : \A x \in S : ~IsNa(r.c[x]))]

(* df.dropna(axis=1): columns without an absent cell in any row *)
DropnaCols(t) ==
  DropCols(t, {x \in ColSet(t) :
                 \E i \in DOMAIN t.rows : IsNa(t.rows[i].c[x])})

(* the outcome of a call: the table, or the exception it raised *)
Ok(t) == [ok |-> TRUE, df |-> t, err |-> "none"]

Raise(t, e) == [ok |-> FALSE, df |-> t, err |-> e]

(* .str accessor: pandas refuses it on a column that holds no text *)
StrAccessorOk(t, col) ==
  \A i \in DOMAIN t.rows : t.rows[i].c[col].k \in {"str", "nan"}

(***************************************************************************)
(* Date parsing of pd.to_datetime(..., errors='coerce').                   *)
(***************************************************************************)
Today == 20230601

SplitAt(s, sep) ==
  LET P == {i \in DOMAIN s : s[i] = sep}
      B == <<0>> \o [n \in 1..Cardinality(P) |->
                       CHOOSE i \in P : Cardinality({j \in P : j < i}) = n - 1]
             \o <<Len(s) + 1>>
  IN [n \in 1..(Cardinality(P) + 1) |-> SubSeq(s, B[n] + 1, B[n + 1] - 1)]

IsNumField(f, maxLen, maxVal) ==
  /\ Len(f) >= 1
  /\ Len(f) <= maxLen
  /\ AllIn(f, Digits)
  /\ DigitsToNat(f) <= maxVal

(* format '%m/%y': month 1..12 in one or two digits, '/', two-digit year *)
IsMonthYear(s) ==
  LET f == SplitAt(s, "/")
  IN /\ Len(f) = 2
     /\ IsNumField(f[1], 2, 12)
     /\ DigitsToNat(f[1]) >= 1
     /\ Len(f[2]) = 2
     /\ AllIn(f[2], Digits)

MonthYearDate(s) ==
  LET f == SplitAt(s, "/")
      yy == DigitsToNat(f[2])
      y == IF yy < 69 THEN 2000 + yy ELSE 1900 + yy
  IN y * 10000 + DigitsToNat(f[1]) * 100 + 1

(* format '%H:%M:%S' *)
IsHourMinSec(s) ==
  LET f == SplitAt(s, ":")
  IN /\ Len(f) = 3
     /\ IsNumField(f[1], 2, 23)
     /\ IsNumField(f[2], 2, 59)
     /\ IsNumField(f[3], 2, 61)

DaysIn(m) == <<31, 28, 31, 30, 31, 30, 31, 31, 30, 31, 30, 31>>[m]

(* no format: the ISO layout YYYY-MM-DD, within the range of a Timestamp *)
IsIsoDate(s) ==
  LET f == SplitAt(s, "-")
  IN /\ Len(f) = 3
     /\ Len(f[1]) = 4 /\ Len(f[2]) = 2 /\ Len(f[3]) = 2
     /\ AllIn(f[1] \o f[2] \o f[3], Digits)
     /\ DigitsToNat(f[1]) >= 1678 /\ DigitsToNat(f[1]) <= 2261
     /\ DigitsToNat(f[2]) >= 1 /\ DigitsToNat(f[2]) <= 12
     /\ DigitsToNat(f[3]) >= 1 /\ DigitsToNat(f[3]) <= DaysIn(DigitsToNat(f[2]))

IsoDate(s) == DigitsToNat(RemoveAll(s, {"-"}))

ToDatetime(x, date_format) ==
  CASE x.k \in {"nan", "nat"} -> NaT
    [] x.k = "date" -> x
    [] x.k = "str" /\ date_format = "%m/%y" ->
         IF IsMonthYear(x.v) THEN DateCell(MonthYearDate(x.v)) ELSE NaT
    [] x.k = "str" /\ date_format = "%H:%M:%S" ->
         IF IsHourMinSec(x.v) THEN DateCell(19000101) ELSE NaT
    [] x.k = "str" /\ date_format = "None" ->
         IF IsIsoDate(x.v) THEN DateCell(IsoDate(x.v)) ELSE NaT

(***************************************************************************)
(* The column validators of DataCleaningGeneric.                           *)
(***************************************************************************)
(* mutant: re.match, where '.' stops at a newline, instead of re.search *)
AlphaCellMutant(x) ==
  IF x.k = "str"
     /\ \E i \in DOMAIN x.v :
           IsDigit(x.v[i]) /\ \A j \in 1..i : x.v[j] # "\n"
  THEN NaN ELSE x

AlphaCell(x) ==
  IF x.k = "str" /\ \E i \in DOMAIN x.v : IsDigit(x.v[i]) THEN NaN ELSE x

RECURSIVE clean_alpha_cols(_, _)
clean_alpha_cols(t, columns) ==
  IF columns = <<>> THEN Ok(t)
  ELSE IF ~HasCol(t, Head(columns)) THEN Raise(t, "KeyError")
  ELSE clean_alpha_cols(MapCol(t, Head(columns), AlphaCell), Tail(columns))

(* mutant: the boundary of the card number moved by one *)
MinCardDigitsMutant == 8 + 1

MinCardDigits == 8

IsShortDigits(s) == AllIn(s, Digits) /\ Len(s) < MinCardDigits

(* mutant: the non-digit characters are not removed first *)
CardCellMutant(x) ==
  IF x.k = "str" /\ SearchAnchored(IsShortDigits, x.v) THEN NaN ELSE x

CardCell(x) ==
  LET y == IF x.k = "str" THEN StrCell(KeepOnly(x.v, Digits)) ELSE x
  IN IF y.k = "str" /\ SearchAnchored(IsShortDigits, y.v) THEN NaN ELSE y

RECURSIVE clean_card_numbers(_, _)
clean_card_numbers(t, columns) ==
  IF columns = <<>> THEN Ok(t)
  ELSE IF ~HasCol(t, Head(columns)) THEN Raise(t, "KeyError")
  ELSE clean_card_numbers(MapCol(t, Head(columns), CardCell), Tail(columns))

(* mutant: the comparison ignores case *)
CategoryCellMutant(x, expected_categories) ==
  LET s == [i \in DOMAIN Strip(AsText(x)) |-> Upper(Strip(AsText(x))[i])]
  IN IF s \in expected_categories THEN StrCell(s) ELSE NaN

CategoryCell(x, expected_categories) ==
  LET s == Strip(AsText(x))
  IN IF s \in expected_categories THEN StrCell(s) ELSE NaN

RECURSIVE clean_categories(_, _, _)
clean_categories(t, columns, expected_categories) ==
  IF columns = <<>> THEN Ok(t)
  ELSE IF ~HasCol(t, Head(columns)) THEN Raise(t, "KeyError")
  ELSE clean_categories(
         MapCol(t, Head(columns),
                LAMBDA x : CategoryCell(x, expected_categories)),
         Tail(columns), expected_categories)

(* mutant: future dates are never filtered *)
DateCellOfMutant(x, date_format, future_dates_valid) ==
  ToDatetime(x, date_format)

DateCellOf(x, date_format, future_dates_valid) ==
  LET d == ToDatetime(x, date_format)
  IN IF ~future_dates_valid /\ d.k = "date" /\ d.v[1] > Today THEN NaT
     ELSE d

RECURSIVE clean_dates(_, _, _, _)
clean_dates(t, columns, date_format, future_dates_valid) ==
  IF columns = <<>> THEN Ok(t)
  ELSE IF ~HasCol(t, Head(columns)) THEN Raise(t, "KeyError")
  ELSE clean_dates(
         MapCol(t, Head(columns),
                LAMBDA x : DateCellOf(x, date_format, future_dates_valid)),
         Tail(columns), date_format, future_dates_valid)

(* mutant: every '@' after the first is removed *)
CollapseAtMutant(s) ==
  SelectSeq([i \in DOMAIN s |->
               IF s[i] = "@" /\ \E j \in 1..(i - 1) : s[j] = "@"
               THEN "" ELSE s[i]],
            LAMBDA c : c # "")

(* re.sub('@{2,}', '@'): every run of '@' becomes one '@' *)
CollapseAt(s) ==
  LET keep == {i \in DOMAIN s : ~(s[i] = "@" /\ i > 1 /\ s[i - 1] = "@")}
  IN [n \in 1..Cardinality(keep) |->
        s[CHOOSE i \in keep : Cardinality({j \in keep : j < i}) = n - 1]]

(* '^[^@]+@[^@]+\.[^@\.]+$' *)
IsEmailShape(s) ==
  \E a \in DOMAIN s : \E d \in DOMAIN s :
     /\ s[a] = "@" /\ s[d] = "."
     /\ \A i \in DOMAIN s : s[i] = "@" => i = a
     /\ a > 1 /\ d > a + 1 /\ d < Len(s)
     /\ \A i \in (d + 1)..Len(s) : s[i] # "."

EmailCell(x) ==
  LET s == CollapseAt(Strip(AsText(x)))
  IN IF SearchAnchored(IsEmailShape, s) THEN StrCell(s) ELSE NaN

RECURSIVE clean_emails(_, _)
clean_emails(t, columns) ==
  IF columns = <<>> THEN Ok(t)
  ELSE IF ~HasCol(t, Head(columns)) THEN Raise(t, "KeyError")
  ELSE clean_emails(MapCol(t, Head(columns), EmailCell), Tail(columns))

NumChars == Digits \cup {".", "-"}

NoCurrency == <<>>

(* mutant: the currency code is removed from the text before the test *)
IsNumericShapeMutant(s, currency_code) ==
  LET n == Len(currency_code)
      u == IF Len(s) >= n /\ SubSeq(s, 1, n) = currency_code
           THEN SubSeq(s, n + 1, Len(s)) ELSE s
  IN Len(u) > 0 /\ AllIn(u, NumChars)

(* validation_regex: '^[0-9\.-]+$', or '^' + currency_code + '\s*[0-9\.-]+$' *)
IsNumericShape(s, currency_code) ==
  LET n == Len(currency_code)
      rest == SubSeq(s, n + 1, Len(s))
      lead == {i \in DOMAIN rest : rest[i] \notin Whitespace}
      lo == IF lead = {} THEN Len(rest) + 1
            ELSE CHOOSE i \in lead : \A j \in lead : i <= j
      num == SubSeq(rest, lo, Len(rest))
  IN /\ Len(s) >= n
     /\ SubSeq(s, 1, n) = currency_code
     /\ Len(num) > 0
     /\ AllIn(num, NumChars)
     /\ n = 0 => lo = 1

NumericText(x, currency_code) ==
  LET s == Strip(AsText(x))
  IN IF SearchAnchored(LAMBDA u : IsNumericShape(u, currency_code), s)
     THEN StrCell(s) ELSE NaN

(* astype(float) *)
CanFloat(x) == x.k = "str" => IsFloatLiteral(Strip(x.v))

ToFloat(x) == IF x.k = "str" THEN FloatCell(ParseFloat(Strip(x.v))) ELSE x

RECURSIVE clean_numeric_cols(_, _, _)
clean_numeric_cols(t, columns, currency_code) ==
  IF columns = <<>> THEN Ok(t)
  ELSE IF ~HasCol(t, Head(columns)) THEN Raise(t, "KeyError")
  ELSE LET col == Head(columns)
           u == MapCol(t, col, LAMBDA x : NumericText(x, currency_code))
       IN IF currency_code # NoCurrency
          THEN clean_numeric_cols(u, Tail(columns), currency_code)
          ELSE IF \E i \in DOMAIN u.rows : ~CanFloat(u.rows[i].c[col])
          THEN Raise(u, "ValueError")
          ELSE clean_numeric_cols(MapCol(u, col, ToFloat), Tail(columns),
                                  currency_code)

PhoneChars == Digits \cup {"(", ")", "X", "x", "+"}

MinPhoneDigits == 7

(* mutant: one digit fewer is enough *)
PhoneCellMutant(x) ==
  LET y == IF x.k = "str" THEN StrCell(KeepOnly(x.v, PhoneChars)) ELSE x
      s == AsText(y)
  IN IF Len(KeepOnly(s, Digits)) < MinPhoneDigits - 1 THEN NaN ELSE StrCell(s)

PhoneCell(x) ==
  LET y == IF x.k = "str" THEN StrCell(KeepOnly(x.v, PhoneChars)) ELSE x
      s == AsText(y)
  IN IF Len(KeepOnly(s, Digits)) < MinPhoneDigits THEN NaN ELSE StrCell(s)

RECURSIVE clean_phone_numbers(_, _)
clean_phone_numbers(t, columns) ==
  IF columns = <<>> THEN Ok(t)
  ELSE IF ~HasCol(t, Head(columns)) THEN Raise(t, "KeyError")
  ELSE clean_phone_numbers(MapCol(t, Head(columns), PhoneCell), Tail(columns))

(***************************************************************************)
(* convert_product_weights: the three regular expressions and the          *)
(* conversion to kilograms.                                                *)
(***************************************************************************)
Letters == Range(LowerLetters) \cup Range(UpperLetters)

WordChars == Letters \cup Digits \cup {"_"}

(* the last position of the run of characters of S that starts at i *)
RunEnd(s, i, S) ==
  CHOOSE j \in (i - 1)..Len(s) :
     /\ \A n \in i..j : s[n] \in S
     /\ j = Len(s) \/ s[j + 1] \notin S

(* regex_multiplier '([0-9]+)\s*x\s*[0-9]', ignoring case, matched at i *)
MultiplierAt(s, i) ==
  /\ IsDigit(s[i])
  /\ LET a == RunEnd(s, RunEnd(s, i, Digits) + 1, Whitespace) + 1
     IN /\ a <= Len(s)
        /\ s[a] \in {"x", "X"}
        /\ LET b == RunEnd(s, a + 1, Whitespace) + 1
           IN b <= Len(s) /\ IsDigit(s[b])

(* the units of regex_unit, in the order the alternation tries them *)
UnitNames == <<<<"g">>, <<"k", "g">>, <<"m", "l">>, <<"o", "z">>>>

LowerText(s) == [i \in DOMAIN s |-> Lower(s[i])]

(* '(?:g|kg|ml|oz)\b' matched at position a *)
UnitMatches(s, a, u) ==
  /\ a + Len(u) - 1 <= Len(s)
  /\ LowerText(SubSeq(s, a, a + Len(u) - 1)) = u
  /\ a + Len(u) > Len(s) \/ s[a + Len(u)] \notin WordChars

(* regex_weight_per_item '([0-9\.]+)\s*(?:g|kg|ml|oz)\b' matched at i *)
WeightAt(s, i) ==
  /\ s[i] \in Digits \cup {"."}
  /\ LET a == RunEnd(s, RunEnd(s, i, Digits \cup {"."}) + 1, Whitespace) + 1
     IN \E n \in DOMAIN UnitNames : UnitMatches(s, a, UnitNames[n])

First(P) == CHOOSE i \in P : \A j \in P : i <= j

(* mutant: a millilitre counted as a litre *)
conversionsMutant(u) ==
  CASE u = <<"k", "g">> -> <<1, 0>>
    [] u = <<"g">> -> <<1, 3>>
    [] u = <<"m", "l">> -> <<1, 0>>
    [] u = <<"o", "z">> -> <<283495, 7>>

(* conversions: the factor of a unit as <<mantissa, scale>> *)
conversions(u) ==
  CASE u = <<"k", "g">> -> <<1, 0>>
    [] u = <<"g">> -> <<1, 3>>
    [] u = <<"m", "l">> -> <<1, 3>>
    [] u = <<"o", "z">> -> <<283495, 7>>

WeightParts(s) ==
  LET M == {i \in DOMAIN s : MultiplierAt(s, i)}
      W == {i \in DOMAIN s : WeightAt(s, i)}
      i == First(W)
      j == RunEnd(s, i, Digits \cup {"."})
      a == RunEnd(s, j + 1, Whitespace) + 1
      n == First({m \in DOMAIN UnitNames : UnitMatches(s, a, UnitNames[m])})
  IN [multiplier |-> IF M = {} THEN 1
                     ELSE DigitsToNat(SubSeq(s, First(M),
                                             RunEnd(s, First(M), Digits))),
      found |-> W # {},
      weight_per_item |-> IF W = {} THEN <<>> ELSE SubSeq(s, i, j),
      unit |-> IF W = {} THEN <<>> ELSE UnitNames[n]]

(* astype(float) of the extracted weight_per_item *)
WeightCanFloat(x) ==
  x.k = "str" /\ WeightParts(x.v).found
     => IsFloatLiteral(WeightParts(x.v).weight_per_item)

WeightCell(x) ==
  IF x.k # "str" THEN NaN
  ELSE LET p == WeightParts(x.v)
       IN IF ~p.found THEN NaN
          ELSE LET w == ParseFloat(p.weight_per_item)
                   f == conversions(p.unit)
               IN FloatCell(NormFloat(<<w[1] * p.multiplier * f[1],
                                        w[2] + f[2]>>))

HelperColumns == {"multiplier", "weight_per_item", "unit"}

RECURSIVE convert_product_weights(_, _)
convert_product_weights(t, columns) ==
  IF columns = <<>> THEN Ok(t)
  ELSE IF ~HasCol(t, Head(columns)) THEN Raise(t, "KeyError")
  ELSE IF ~StrAccessorOk(t, Head(columns)) THEN Raise(t, "AttributeError")
  ELSE IF \E i \in DOMAIN t.rows : ~WeightCanFloat(t.rows[i].c[Head(columns)])
  THEN Raise(t, "ValueError")
  ELSE convert_product_weights(
         DropCols(MapCol(t, Head(columns), WeightCell), HelperColumns),
         Tail(columns))

(***************************************************************************)
(* The decorators.                                                         *)
(***************************************************************************)
IsNullLiteral(s) == s = <<"N", "U", "L", "L">> \/ s = <<"N", "/", "A">>

(* mutant: only 'NULL' is normalised *)
NullCellMutant(x) ==
  IF x.k = "str" /\ SearchAnchored(LAMBDA s : s = <<"N", "U", "L", "L">>, x.v) THEN NaN ELSE x

(* replace(['^NULL$', '^N/A$'], np.nan, regex=True) on one cell *)
NullCell(x) ==
  IF x.k = "str" /\ SearchAnchored(IsNullLiteral, x.v) THEN NaN ELSE x

(* mutant: the column named '1' is not in the list *)
unwanted_columnsMutant == {"index", "Unnamed: 0", "level_0"}

unwanted_columns == {"index", "Unnamed: 0", "level_0", "1"}

(***************************************************************************)
(* Static data of DataCleaning.                                            *)
(***************************************************************************)
(* mutant: the allow-list holds the capitalized text form of an absent cell *)
continentsMutant ==
  {<<"E", "u", "r", "o", "p", "e">>, <<"A", "m", "e", "r", "i", "c", "a">>, <<"N", "a", "n">>}

continents == {<<"E", "u", "r", "o", "p", "e">>, <<"A", "m", "e", "r", "i", "c", "a">>}

country_codes == {<<"D", "E">>, <<"G", "B">>, <<"U", "S">>}

time_periods == {<<"E", "v", "e", "n", "i", "n", "g">>, <<"M", "o", "r", "n", "i", "n", "g">>, <<"M", "i", "d", "d", "a", "y">>, <<"L", "a", "t", "e", "_", "H", "o", "u", "r", "s">>}

product_categories ==
  {<<"d", "i", "y">>, <<"f", "o", "o", "d", "-", "a", "n", "d", "-", "d", "r", "i", "n", "k">>, <<"h", "e", "a", "l", "t", "h", "-", "a", "n", "d", "-", "b", "e", "a", "u", "t", "y">>, <<"h", "o", "m", "e", "w", "a", "r", "e">>, <<"p", "e", "t", "s">>,
   <<"s", "p", "o", "r", "t", "s", "-", "a", "n", "d", "-", "l", "e", "i", "s", "u", "r", "e">>, <<"t", "o", "y", "s", "-", "a", "n", "d", "-", "g", "a", "m", "e", "s">>}

ProductCurrency == <<"A^", "GBP">>

(* mutant: the replacement changes nothing *)
ReplaceValueMutant(x, a, b) == x

(* df[col].replace(a, b): cells equal to a become b *)
ReplaceValue(x, a, b) == IF x.k = "str" /\ x.v = a THEN StrCell(b) ELSE x

(* astype(str), str.replace('^ee', ''), str.capitalize() *)
ContinentRepair(x) ==
  LET s == AsText(x)
      u == IF Len(s) >= 2 /\ SubSeq(s, 1, 2) = <<"e", "e">>
           THEN SubSeq(s, 3, Len(s)) ELSE s
  IN StrCell(Capitalize(u))

(* mutant: a missing column counts as absent in every row *)
dropna_subsetMutant(t, S) ==
  IF S \subseteq ColSet(t) THEN Ok(DropnaRows(t, S))
  ELSE Ok([t EXCEPT !.rows = <<>>])

(* df.dropna(subset=...): a column that is missing is a KeyError *)
dropna_subset(t, S) ==
  IF S \subseteq ColSet(t) THEN Ok(DropnaRows(t, S)) ELSE Raise(t, "KeyError")

(* astype(int) of a column of floats *)
ToInt(x) == IF x.k = "float" THEN IntCell(TruncFloat(x.v)) ELSE x

RECURSIVE astype_int(_, _)
astype_int(t, columns) ==
  IF columns = <<>> THEN Ok(t)
  ELSE IF ~HasCol(t, Head(columns)) THEN Raise(t, "KeyError")
  ELSE IF \E i \in DOMAIN t.rows : IsNa(t.rows[i].c[Head(columns)])
  THEN Raise(t, "ValueError")
  ELSE astype_int(MapCol(t, Head(columns), ToInt), Tail(columns))

(***************************************************************************)
(* Input tables.  Each entity lists its columns with the cell a well       *)
(* formed source row holds and the other cells the sources are seen to     *)
(* hold; a row differs from the well formed row in at most MaxDev columns, *)
(* and a table has at most MaxRows rows.                                   *)
(***************************************************************************)
Entities == {"user", "card", "store", "products", "orders", "date_time"}

S(s) == StrCell(s)

UserSchema ==
  << <<"index", S(<<"7">>), {}>>,
     <<"first_name", S(<<"A", "l">>), {S(<<"A", "1">>), S(<<"N", "U", "L", "L">>)}>>,
     <<"last_name", S(<<"L", "i">>), {S(<<"L", "2">>), S(<<"N", "/", "A">>)}>>,
     <<"company", S(<<"C", "o">>), {S(<<"n", "u", "l", "l">>), S(<<"N", "U", "L", "L", " ">>), S(<<"N", "/", "A", ".">>)}>>,
     <<"country", S(<<"U", "K">>), {S(<<"U", "2">>), S(<<"N", "U", "L", "L", "\n">>)}>>,
     <<"country_code", S(<<"G", "B">>), {S(<<"G", "G", "B">>), S(<<"F", "R">>)}>>,
     <<"date_of_birth", S(<<"1", "9", "9", "0", "-", "0", "5", "-", "0", "5">>), {S(<<"2", "1", "0", "0", "-", "0", "1", "-", "0", "1">>), S(<<"X", "Y", "Z">>)}>>,
     <<"join_date", S(<<"2", "0", "2", "0", "-", "0", "1", "-", "0", "1">>), {S(<<"N", "U", "L", "L">>)}>>,
     <<"phone_number", S(<<"(", "0", "2", "0", ")", " ", "7", "9", "4", "6", " ", "0", "9", "5", "8">>), {S(<<"1", "2", "3", "4", "5", "6">>)}>>,
     <<"email_address", S(<<"a", "@", "b", ".", "c", "o">>), {S(<<"a", "@", "@", "b", ".", "c", "o">>), S(<<"a", "@", "b", "@", "c", ".", "c", "o">>)}>> >>

CardSchema ==
  << <<"Unnamed: 0", S(<<"0">>), {}>>,
     <<"card_number", S(<<"4", "1", "1", "1", "-", "1", "1", "1", "1">>),
        {S(<<"4", "1", "1", " ", "1", "1", "1">>), S(<<"1", "2", "3", "4", "5", "6", "7">>), S(<<"N", "U", "L", "L">>)}>>,
     <<"expiry_date", S(<<"0", "9", "/", "2", "6">>), {S(<<"0", "1", "/", "2", "0">>), S(<<"1", "3", "/", "2", "6">>), S(<<"N", "/", "A">>)}>>,
     <<"card_provider", S(<<"V", "I", "S", "A">>), {S(<<"N", "U", "L", "L">>)}>>,
     <<"date_payment_confirmed", S(<<"2", "0", "1", "5", "-", "1", "1", "-", "2", "5">>),
        {S(<<"2", "0", "2", "3", "-", "0", "6", "-", "0", "1">>), S(<<"2", "1", "0", "0", "-", "0", "1", "-", "0", "1">>), S(<<"X", "Y", "Z">>)}>> >>

DateTimeSchema ==
  << <<"timestamp", S(<<"2", "2", ":", "0", "0", ":", "0", "6">>), {S(<<"2", "5", ":", "0", "0", ":", "0", "0">>), S(<<"N", "U", "L", "L">>)}>>,
     <<"month", S(<<"9">>), {S(<<"1", "X">>), S(<<"N", "U", "L", "L">>), S(<<"-">>)}>>,
     <<"year", S(<<"2", "0", "1", "2">>), {S(<<"N", "/", "A">>)}>>,
     <<"day", S(<<"1", "9">>), {S(<<"1", ".", "5">>), S(<<"1", ".", "2", ".", "3">>)}>>,
     <<"time_period", S(<<"E", "v", "e", "n", "i", "n", "g">>), {S(<<" ", "M", "o", "r", "n", "i", "n", "g", " ">>), S(<<"N", "i", "g", "h", "t">>)}>>,
     <<"date_uuid", S(<<"u", "-", "1">>), {S(<<"N", "U", "L", "L">>)}>> >>

OrdersSchema ==
  << <<"level_0", S(<<"0">>), {}>>,
     <<"index", S(<<"0">>), {}>>,
     <<"date_uuid", S(<<"u", "-", "1">>), {S(<<"N", "/", "A">>)}>>,
     <<"first_name", S(<<"N", "U", "L", "L">>), {S(<<"A", "l">>)}>>,
     <<"last_name", S(<<"N", "U", "L", "L">>), {}>>,
     <<"card_number", S(<<"4", "1", "1", "1", "1", "1", "1", "1">>), {S(<<"4", "1", "1", " ", "1", "1", "1">>)}>>,
     <<"store_code", S(<<"B", "A", "-", "1">>), {S(<<"N", "U", "L", "L">>)}>>,
     <<"product_code", S(<<"P", "1">>), {}>>,
     <<"1", S(<<"N", "U", "L", "L">>), {}>>,
     <<"product_quantity", S(<<"3">>), {S(<<"x">>), S(<<"1", "-", "2">>)}>> >>

ProductsSchema ==
  << <<"Unnamed: 0", S(<<"0">>), {}>>,
     <<"product_name", S(<<"S", "a", "w">>), {S(<<"N", "U", "L", "L">>)}>>,
     <<"product_price", S(<<"A^", "GBP", "1", "2", ".", "5", "0">>), {S(<<"1", "2", ".", "5", "0">>), S(<<"A^", "GBP", "x">>)}>>,
     <<"weight", S(<<"2", "k", "g">>),
        {S(<<"1", "0", " ", "x", " ", "2", "0", "0", "g">>), S(<<"1", "o", "z">>), S(<<"h", "e", "a", "v", "y">>), S(<<"1", ".", "2", ".", "3", "k", "g">>), S(<<".", "g">>)}>>,
     <<"category", S(<<"d", "i", "y">>), {S(<<"p", "e", "t", "s">>), S(<<"c", "a", "r">>)}>>,
     <<"date_added", S(<<"2", "0", "1", "9", "-", "0", "3", "-", "0", "4">>), {S(<<"X", "Y", "Z">>)}>>,
     <<"removed", S(<<"S", "t", "i", "l", "l", "_", "a", "v", "a", "l", "i", "a", "b", "l", "e">>), {S(<<"R", "e", "m", "o", "v", "e", "d">>), S(<<"N", "/", "A">>)}>>,
     <<"product_code", S(<<"P", "1">>), {}>> >>

StoreSchema ==
  << <<"index", S(<<"0">>), {}>>,
     <<"address", S(<<"1", " ", "H", "i", "l", "l">>), {S(<<"N", "/", "A">>)}>>,
     <<"longitude", S(<<"-", "0", ".", "1">>), {S(<<"N", "/", "A">>)}>>,
     <<"lat", S(<<"N", "/", "A">>), {S(<<"1", ".", "5">>)}>>,
     <<"latitude", S(<<"5", "1", ".", "5">>), {S(<<"5", "I", ".", "5">>)}>>,
     <<"locality", S(<<"B", "a", "t", "h">>), {S(<<"B", "4", "t", "h">>)}>>,
     <<"store_code", S(<<"B", "A", "-", "1">>), {S(<<"N", "U", "L", "L">>)}>>,
     <<"staff_numbers", S(<<"3", "0">>), {S(<<"3", "n", "9">>), S(<<".">>)}>>,
     <<"opening_date", S(<<"2", "0", "1", "0", "-", "0", "6", "-", "1", "2">>), {S(<<"X", "Y", "Z">>)}>>,
     <<"store_type", S(<<"L", "o", "c", "a", "l">>), {S(<<"L", "o", "c", "4", "l">>), S(<<"N", "U", "L", "L">>)}>>,
     <<"country_code", S(<<"G", "B">>), {S(<<" ", "U", "S", " ">>), S(<<"F", "R">>), S(<<"N", "U", "L", "L">>)}>>,
     <<"continent", S(<<"E", "u", "r", "o", "p", "e">>),
        {S(<<"e", "e", "E", "u", "r", "o", "p", "e">>), S(<<"e", "e", "A", "m", "e", "r", "i", "c", "a">>), S(<<"A", "s", "i", "a">>), S(<<"N", "U", "L", "L">>)}>> >>

SchemaOf(e) ==
  CASE e = "user" -> UserSchema
    [] e = "card" -> CardSchema
    [] e = "store" -> StoreSchema
    [] e = "products" -> ProductsSchema
    [] e = "orders" -> OrdersSchema
    [] e = "date_time" -> DateTimeSchema

ColNames(sch) == [i \in DOMAIN sch |-> sch[i][1]]

IndexOf(sch, name) == CHOOSE i \in DOMAIN sch : sch[i][1] = name

BaseRow(sch) == [x \in Range(ColNames(sch)) |-> sch[IndexOf(sch, x)][2]]

(* the rows that differ from the well formed row in at most k columns *)
RECURSIVE RowsWithin(_, _)
RowsWithin(sch, k) ==
  IF k = 0 THEN {BaseRow(sch)}
  ELSE LET P == RowsWithin(sch, k - 1)
           Change(r) == UNION {{[r EXCEPT ![sch[i][1]] = a] : a \in sch[i][3]} :
                                 i \in {j \in DOMAIN sch :
                                          r[sch[j][1]] = sch[j][2]}}
       IN P \cup UNION {Change(r) : r \in P}

RowPool(sch) == RowsWithin(sch, MaxDev)

MakeTable(sch, r) ==
  [cols |-> ColNames(sch),
   rows |-> [i \in DOMAIN r |-> [idx |-> i, c |-> r[i]]]]

(***************************************************************************)
(* The state machine: one call clean_<entity>(df).  pc is the position in  *)
(* the decorator stack (only_clean_nonempty_df, standardize_nulls,         *)
(* drop_unwanted_columns) and step the statement of the pipeline body that *)
(* runs next; raw is the table as the caller passed it, df the table the   *)
(* call works on, trace the stages that have run.                          *)
(***************************************************************************)
(* a pipeline takes the table and no keyword argument *)
NoArgs == <<>>

(* a cleaning call reads no source and runs outside the load script *)
NoIo == <<>>

Init ==
  /\ entity \in Entities
  /\ \E n \in 0..MaxRows :
        \E r \in [1..n -> RowPool(SchemaOf(entity))] :
           raw = MakeTable(SchemaOf(entity), r)
  /\ df = raw
  /\ pc = "call"
  /\ step = 0
  /\ result = EmptyFrame
  /\ err = "none"
  /\ trace = <<>>
  /\ run = 1
  /\ args = NoArgs
  /\ io = NoIo

(* only_clean_nonempty_df.wrapper *)
(* mutant: the guard lets a table of zero rows through *)
NonEmptyMutant(t) == Len(t.rows) >= 0

NonEmpty(t) == Len(t.rows) > 0

OnlyCleanNonemptyDf ==
  /\ pc = "call"
  /\ IF NonEmpty(df)
     THEN pc' = "nulls" /\ result' = result
     ELSE pc' = "done" /\ result' = EmptyFrame
  /\ UNCHANGED <<entity, raw, df, step, err, trace, run, args, io>>

(* standardize_nulls.wrapper *)
StandardizeNulls ==
  /\ pc = "nulls"
  /\ df' = MapAll(df, NullCell)
  /\ pc' = "prune"
  /\ trace' = Append(trace, "standardize_nulls")
  /\ UNCHANGED <<entity, raw, step, result, err, run, args, io>>

(* drop_unwanted_columns.wrapper, up to its call of the pipeline body *)
DropUnwantedColumns ==
  /\ pc = "prune"
  /\ df' = DropCols(df, unwanted_columns)
  /\ pc' = "body"
  /\ step' = 1
  /\ trace' = trace \o <<"drop_unwanted_columns", "body">>
  /\ UNCHANGED <<entity, raw, result, err, run, args, io>>

(* one statement of a pipeline body with outcome R; the last one returns *)
Statement(e, n, R, name, last) ==
  /\ pc = "body"
  /\ entity = e
  /\ step = n
  /\ trace' = Append(trace, name)
  /\ df' = R.df
  /\ step' = n + 1
  /\ IF ~R.ok THEN pc' = "raised" /\ err' = R.err /\ result' = result
     ELSE IF last THEN pc' = "done" /\ err' = err /\ result' = R.df
     ELSE pc' = "body" /\ err' = err /\ result' = result
  /\ UNCHANGED <<entity, raw, run, args, io>>

(* clean_card_data *)
CardCleanCardNumbers ==
  Statement("card", 1, clean_card_numbers(df, <<"card_number">>),
            "clean_card_numbers", FALSE)

CardCleanExpiryDate ==
  Statement("card", 2, clean_dates(df, <<"expiry_date">>, "%m/%y", TRUE),
            "clean_dates", FALSE)

CardCleanDatePaymentConfirmed ==
  Statement("card", 3,
            clean_dates(df, <<"date_payment_confirmed">>, "None", FALSE),
            "clean_dates", FALSE)

CardRequired == {"card_number", "date_payment_confirmed", "expiry_date"}

CardDropna ==
  Statement("card", 4, dropna_subset(df, CardRequired), "dropna", TRUE)

(* clean_date_time_data *)
DateTimeNumeric == <<"month", "day", "year">>

DateTimeCleanNumeric ==
  Statement("date_time", 1, clean_numeric_cols(df, DateTimeNumeric, NoCurrency),
            "clean_numeric_cols", FALSE)

DateTimeCleanTimePeriod ==
  Statement("date_time", 2,
            clean_categories(df, <<"time_period">>, time_periods),
            "clean_categories", FALSE)

(* mutant: only the time period and the timestamp are required *)
timestamp_filter_mutant(t) ==
  IF ~HasCol(t, "timestamp") THEN Raise(t, "AttributeError")
  ELSE LET valid == [t EXCEPT !.rows = SelectSeq(t.rows,
                       LAMBDA r : ~IsNa(ToDatetime(r.c["timestamp"],
                                                   "%H:%M:%S")))]
       IN Ok(DropnaRows(valid, {"time_period", "timestamp"}))

(* df.loc[is_valid_timestamp, :].dropna() *)
timestamp_filter(t) ==
  IF ~HasCol(t, "timestamp") THEN Raise(t, "AttributeError")
  ELSE LET valid == [t EXCEPT !.rows = SelectSeq(t.rows,
                       LAMBDA r : ~IsNa(ToDatetime(r.c["timestamp"],
                                                   "%H:%M:%S")))]
       IN Ok(DropnaRows(valid, ColSet(valid)))

(* mutant: the timestamp column is replaced by the parsed value *)
DateTimeFilterRowsMutant ==
  Statement("date_time", 3,
            IF ~HasCol(df, "timestamp") THEN Raise(df, "AttributeError")
            ELSE LET parsed == MapCol(df, "timestamp",
                                      LAMBDA x : ToDatetime(x, "%H:%M:%S"))
                 IN Ok(DropnaRows(parsed, ColSet(parsed))),
            "dropna", FALSE)

DateTimeFilterRows ==
  Statement("date_time", 3, timestamp_filter(df), "dropna", FALSE)

DateTimeAstypeInt ==
  Statement("date_time", 4, astype_int(df, DateTimeNumeric), "astype", TRUE)

(* clean_orders_data *)
OrdersNameColumns == {"first_name", "last_name"}

drop_columns(t, T) ==
  IF T \subseteq ColSet(t) THEN Ok(DropCols(t, T)) ELSE Raise(t, "KeyError")

OrdersDropNames ==
  Statement("orders", 1, drop_columns(df, OrdersNameColumns), "drop", FALSE)

OrdersCleanCardNumbers ==
  Statement("orders", 2, clean_card_numbers(df, <<"card_number">>),
            "clean_card_numbers", FALSE)

OrdersCleanQuantity ==
  Statement("orders", 3,
            clean_numeric_cols(df, <<"product_quantity">>, NoCurrency),
            "clean_numeric_cols", FALSE)

OrdersDropna ==
  Statement("orders", 4, Ok(DropnaCols(df)), "dropna", TRUE)

(* clean_products_data *)
ProductsConvertWeights ==
  Statement("products", 1, convert_product_weights(df, <<"weight">>),
            "convert_product_weights", FALSE)

ProductsCleanPrice ==
  Statement("products", 2,
            clean_numeric_cols(df, <<"product_price">>, ProductCurrency),
            "clean_numeric_cols", FALSE)

ProductsCleanDateAdded ==
  Statement("products", 3, clean_dates(df, <<"date_added">>, "None", TRUE),
            "clean_dates", FALSE)

ProductsCleanCategory ==
  Statement("products", 4,
            clean_categories(df, <<"category">>, product_categories),
            "clean_categories", FALSE)

replace_value(t, col, a, b) ==
  IF ~HasCol(t, col) THEN Raise(t, "KeyError")
  ELSE Ok(MapCol(t, col, LAMBDA x : ReplaceValue(x, a, b)))

ProductsFixRemoved ==
  Statement("products", 5,
            replace_value(df, "removed", <<"S", "t", "i", "l", "l", "_", "a", "v", "a", "l", "i", "a", "b", "l", "e">>,
                          <<"S", "t", "i", "l", "l", "_", "a", "v", "a", "i", "l", "a", "b", "l", "e">>),
            "replace", FALSE)

(* mutant: only the weight is required *)
ProductsDropnaMutant ==
  Statement("products", 6, dropna_subset(df, {"weight"}), "dropna", TRUE)

ProductsDropna ==
  Statement("products", 6, Ok(DropnaRows(df, ColSet(df))), "dropna", TRUE)

(* clean_store_data *)
StoreCleanOpeningDate ==
  Statement("store", 1, clean_dates(df, <<"opening_date">>, "None", TRUE),
            "clean_dates", FALSE)

StoreCleanCountryCode ==
  Statement("store", 2,
            clean_categories(df, <<"country_code">>, country_codes),
            "clean_categories", FALSE)

continent_repair(t) ==
  IF ~HasCol(t, "continent") THEN Raise(t, "KeyError")
  ELSE Ok(MapCol(t, "continent", ContinentRepair))

StoreRepairContinent ==
  Statement("store", 3, continent_repair(df), "repair", FALSE)

StoreCleanContinent ==
  Statement("store", 4, clean_categories(df, <<"continent">>, continents),
            "clean_categories", FALSE)

StoreCleanAlpha ==
  Statement("store", 5, clean_alpha_cols(df, <<"store_type", "locality">>),
            "clean_alpha_cols", FALSE)

StoreNumeric == <<"latitude", "lat", "longitude", "staff_numbers">>

StoreCleanNumeric ==
  Statement("store", 6, clean_numeric_cols(df, StoreNumeric, NoCurrency),
            "clean_numeric_cols", FALSE)

(* mutant: the required set of the earlier data_cleaning.py *)
StoreRequiredMutant == {"address", "store_type", "country_code"}

StoreRequired == {"store_code", "store_type", "country_code"}

StoreDropna ==
  Statement("store", 7, dropna_subset(df, StoreRequired), "dropna", TRUE)

(* clean_user_data *)
UserCleanAlpha ==
  Statement("user", 1,
            clean_alpha_cols(df, <<"first_name", "last_name", "country">>),
            "clean_alpha_cols", FALSE)

UserCleanDates ==
  Statement("user", 2,
            clean_dates(df, <<"date_of_birth", "join_date">>, "None", FALSE),
            "clean_dates", FALSE)

UserFixCountryCode ==
  Statement("user", 3, replace_value(df, "country_code", <<"G", "G", "B">>, <<"G", "B">>),
            "replace", FALSE)

UserCleanCountryCode ==
  Statement("user", 4,
            clean_categories(df, <<"country_code">>, country_codes),
            "clean_categories", FALSE)

(* mutant: the email step takes the place of the phone step *)
UserCleanPhoneMutant ==
  Statement("user", 5, clean_emails(df, <<"email_address">>),
            "clean_emails", FALSE)

UserCleanPhone ==
  Statement("user", 5, clean_phone_numbers(df, <<"phone_number">>),
            "clean_phone_numbers", FALSE)

UserCleanEmail ==
  Statement("user", 6, clean_emails(df, <<"email_address">>),
            "clean_emails", FALSE)

(* mutant: last_name is not required *)
UserRequiredMutant == {"first_name"}

UserRequired == {"first_name", "last_name"}

UserDropna ==
  Statement("user", 7, dropna_subset(df, UserRequired), "dropna", TRUE)

(* the caller passes the table a call returned to the same pipeline again *)
Rerun ==
  /\ pc = "done"
  /\ run = 1
  /\ NonEmpty(raw)
  /\ NonEmpty(result)
  /\ raw' = result
  /\ df' = result
  /\ pc' = "call"
  /\ step' = 0
  /\ result' = EmptyFrame
  /\ trace' = <<>>
  /\ run' = 2
  /\ UNCHANGED <<entity, err, args, io>>

Next ==
  \/ OnlyCleanNonemptyDf
  \/ StandardizeNulls
  \/ DropUnwantedColumns
  \/ CardCleanCardNumbers
  \/ CardCleanExpiryDate
  \/ CardCleanDatePaymentConfirmed
  \/ CardDropna
  \/ DateTimeCleanNumeric
  \/ DateTimeCleanTimePeriod
  \/ DateTimeFilterRows
  \/ DateTimeAstypeInt
  \/ OrdersDropNames
  \/ OrdersCleanCardNumbers
  \/ OrdersCleanQuantity
  \/ OrdersDropna
  \/ ProductsConvertWeights
  \/ ProductsCleanPrice
  \/ ProductsCleanDateAdded
  \/ ProductsCleanCategory
  \/ ProductsFixRemoved
  \/ ProductsDropna
  \/ StoreCleanOpeningDate
  \/ StoreCleanCountryCode
  \/ StoreRepairContinent
  \/ StoreCleanContinent
  \/ StoreCleanAlpha
  \/ StoreCleanNumeric
  \/ StoreDropna
  \/ UserCleanAlpha
  \/ UserCleanDates
  \/ UserFixCountryCode
  \/ UserCleanCountryCode
  \/ UserCleanPhone
  \/ UserCleanEmail
  \/ UserDropna

Spec == Init /\ [][Next]_vars

NextRerun == Next \/ Rerun

SpecRerun == Init /\ [][NextRerun]_vars

(***************************************************************************)
(* A pipeline called with a table that lacks one of the columns its        *)
(* docstring expects, required by the completeness filter or not.          *)
(***************************************************************************)
RequiredOf(e) ==
  CASE e = "user" -> UserRequired
    [] e = "card" -> CardRequired
    [] e = "store" -> StoreRequired
    [] e = "date_time" -> {"timestamp", "time_period"}
    [] OTHER -> {}

OptionalColumns(e) == Range(ColNames(SchemaOf(e))) \ RequiredOf(e)

MissingChoices(e) ==
  {{col} : col \in OptionalColumns(e) \cup RequiredOf(e)}
     \cup (IF e = "orders" THEN {OrdersNameColumns} ELSE {})

InitMissing ==
  /\ entity \in Entities
  /\ \E n \in 1..MaxRows :
        \E r \in [1..n -> RowPool(SchemaOf(entity))] :
           \E missing \in MissingChoices(entity) :
              raw = DropCols(MakeTable(SchemaOf(entity), r), missing)
  /\ df = raw
  /\ pc = "call"
  /\ step = 0
  /\ result = EmptyFrame
  /\ err = "none"
  /\ trace = <<>>
  /\ run = 1
  /\ args = NoArgs
  /\ io = NoIo

SpecMissing == InitMissing /\ [][Next]_vars

(***************************************************************************)
(* A direct call of one column validator of DataCleaningGeneric on a table *)
(* of one column: entity is the validator, args its keyword arguments, raw *)
(* the table passed and result the table returned.                         *)
(***************************************************************************)
Validators ==
  {"clean_alpha_cols", "clean_card_numbers", "clean_categories", "clean_dates",
   "clean_emails", "clean_numeric_cols", "clean_phone_numbers",
   "convert_product_weights"}

ValueColumn == "value"

Pound == <<"GBP">>

ArgsOf(v) ==
  CASE v = "clean_numeric_cols" ->
         {[currency_code |-> c] : c \in {NoCurrency, Pound}}
    [] v = "clean_dates" ->
         {[date_format |-> "None", future_dates_valid |-> b] : b \in BOOLEAN}
    [] v = "clean_categories" -> {[expected_categories |-> country_codes]}
    [] OTHER -> {NoArgs}

(* weight texts of the documented layouts: multiplier, magnitude, unit *)
WeightMultipliers == {<<>>, <<"1", "0", " ", "x", " ">>, <<"3", "X">>}

WeightMagnitudes == {<<"2", "0", "0">>, <<"1", ".", "5">>}

WeightUnits == {<<"g">>, <<"k", "g">>, <<"m", "l">>, <<"o", "z">>, <<" ", "K", "G">>}

WeightTexts ==
  {m \o n \o u : m \in WeightMultipliers, n \in WeightMagnitudes,
                 u \in WeightUnits}

TextsOf(v) ==
  CASE v = "clean_alpha_cols" ->
         {<<"A", "l">>, <<"A", "1">>, <<"4">>, <<"a", " ", "b", "\n", "7">>, <<"O", "'", "N", "e", "i", "l", "-", "S", "m", "i", "t", "h">>, <<>>}
    [] v = "clean_card_numbers" ->
         {<<"4", "1", "1", "1", "-", "1", "1", "1", "1">>, <<"4", "1", "1", " ", "1", "1", "1">>, <<"1", "2", "3", "4", "5", "6", "7">>, <<"1", "2", "3", "4", "5", "6", "7", "8">>, <<"a", "b", "c">>, <<>>,
          <<"4", "1", "1", "1", " ", "1", "1", "1", "1", " ", "1", "1", "1", "1", "\n">>}
    [] v = "clean_categories" ->
         {<<"G", "B">>, <<" ", " ", "g", "b", " ">>, <<"F", "R">>, <<" ", "U", "S", " ">>, <<"g", "b">>, <<"D", "E", "\n">>, <<"G", " ", "B">>}
    [] v = "clean_dates" ->
         {<<"2", "0", "2", "5", "-", "0", "1", "-", "0", "1">>, <<"1", "9", "9", "0", "-", "0", "5", "-", "0", "5">>, <<"2", "0", "2", "3", "-", "0", "6", "-", "0", "1">>, <<"2", "0", "2", "3", "-", "0", "6", "-", "0", "2">>, <<"X", "Y", "Z">>,
          <<"2", "0", "2", "3", "-", "1", "3", "-", "0", "1">>, <<"2", "0", "2", "3", "-", "0", "2", "-", "3", "0">>}
    [] v = "clean_emails" ->
         {<<"a", "@", "b", ".", "c", "o">>, <<"a", "@", "@", "b", ".", "c", "o">>, <<"a", "@", "b", "@", "c", ".", "c", "o">>, <<" ", "a", "@", "b", ".", "c", "o", " ">>, <<"a", "@", "b">>, <<"@", "b", ".", "c", "o">>,
          <<"a", "@", ".", "c", "o">>, <<"a", "@", "b", ".">>, <<"a", "@", "@", "@", "b", ".", "c", ".", "d">>, <<"a", "b", ".", "c", "o">>, <<"a", "@", "b", ".", "c", "@">>, <<"a", "@", ".", ".", "c", "o">>}
    [] v = "clean_numeric_cols" ->
         {<<"1", "2", ".", "5">>, <<"-", "3">>, <<"1", "2", ".", "5", ".", "3">>, <<" ", "7", " ">>, <<"1", "X">>, <<"-">>, <<>>, <<"GBP", "1", "2", ".", "5", "0">>,
          <<"1", "2", ".", "5", "0">>, <<"GBP", " ", "3">>, <<"GBP", "x">>, <<" ", "GBP", "1", " ">>, <<"GBP">>, <<"x", "GBP", "1">>, <<"GBP", "GBP", "1">>}
    [] v = "clean_phone_numbers" ->
         {<<"(", "0", "2", "0", ")", " ", "7", "9", "4", "6", " ", "0", "9", "5", "8">>, <<"1", "2", "3", "4", "5", "6">>, <<"1", "2", "3", "4", "5", "6", "7">>, <<"+", "4", "4", " ", "x", "1", "2">>, <<"a", "b", "c">>,
          <<"1", "2", "-", "3", "4", "-", "5", "6", "-", "7", " ", "e", "x", "t">>, <<>>}
    [] v = "convert_product_weights" ->
         WeightTexts \cup {<<"2", "k", "g">>, <<"5", "0", "0", "m", "l">>, <<"1", "o", "z">>, <<"h", "e", "a", "v", "y">>, <<"1", ".", "2", ".", "3", "k", "g">>,
                           <<"2", "k", "g", "s">>, <<"7", "7">>}

CellsOf(v) == {StrCell(s) : s \in TextsOf(v)} \cup {NaN}

MakeColumn(cells) ==
  [cols |-> <<ValueColumn>>,
   rows |-> [i \in DOMAIN cells |->
               [idx |-> i, c |-> [x \in {ValueColumn} |-> cells[i]]]]]

InitValidators ==
  /\ entity \in Validators
  /\ args \in ArgsOf(entity)
  /\ \E n \in 0..MaxRows :
        \E cells \in [1..n -> CellsOf(entity)] : raw = MakeColumn(cells)
  /\ df = raw
  /\ pc = "validate"
  /\ step = 0
  /\ result = EmptyFrame
  /\ err = "none"
  /\ trace = <<>>
  /\ run = 1
  /\ io = NoIo

(* the call of validator v with outcome R *)
Validate(v, R) ==
  /\ pc = "validate"
  /\ entity = v
  /\ trace' = Append(trace, v)
  /\ df' = R.df
  /\ IF R.ok THEN pc' = "done" /\ err' = err /\ result' = R.df
     ELSE pc' = "raised" /\ err' = R.err /\ result' = result
  /\ UNCHANGED <<entity, raw, step, run, args, io>>

CallCleanAlphaCols ==
  Validate("clean_alpha_cols", clean_alpha_cols(df, <<ValueColumn>>))

CallCleanCardNumbers ==
  Validate("clean_card_numbers", clean_card_numbers(df, <<ValueColumn>>))

CallCleanCategories ==
  /\ entity = "clean_categories"
  /\ Validate("clean_categories",
              clean_categories(df, <<ValueColumn>>, args.expected_categories))

CallCleanDates ==
  /\ entity = "clean_dates"
  /\ Validate("clean_dates",
              clean_dates(df, <<ValueColumn>>, args.date_format,
                          args.future_dates_valid))

CallCleanEmails ==
  Validate("clean_emails", clean_emails(df, <<ValueColumn>>))

CallCleanNumericCols ==
  /\ entity = "clean_numeric_cols"
  /\ Validate("clean_numeric_cols",
              clean_numeric_cols(df, <<ValueColumn>>, args.currency_code))

CallCleanPhoneNumbers ==
  Validate("clean_phone_numbers", clean_phone_numbers(df, <<ValueColumn>>))

CallConvertProductWeights ==
  Validate("convert_product_weights",
           convert_product_weights(df, <<ValueColumn>>))

NextValidators ==
  \/ CallCleanAlphaCols
  \/ CallCleanCardNumbers
  \/ CallCleanCategories
  \/ CallCleanDates
  \/ CallCleanEmails
  \/ CallCleanNumericCols
  \/ CallCleanPhoneNumbers
  \/ CallConvertProductWeights

SpecValidators == InitValidators /\ [][NextValidators]_vars

(* the validator v called on table t with keyword arguments a *)
CallValidator(v, t, a) ==
  CASE v = "clean_alpha_cols" -> clean_alpha_cols(t, <<ValueColumn>>)
    [] v = "clean_card_numbers" -> clean_card_numbers(t, <<ValueColumn>>)
    [] v = "clean_categories" ->
         clean_categories(t, <<ValueColumn>>, a.expected_categories)
    [] v = "clean_dates" ->
         clean_dates(t, <<ValueColumn>>, a.date_format, a.future_dates_valid)
    [] v = "clean_emails" -> clean_emails(t, <<ValueColumn>>)
    [] v = "clean_numeric_cols" ->
         clean_numeric_cols(t, <<ValueColumn>>, a.currency_code)
    [] v = "clean_phone_numbers" -> clean_phone_numbers(t, <<ValueColumn>>)
    [] v = "convert_product_weights" ->
         convert_product_weights(t, <<ValueColumn>>)

(***************************************************************************)
(* A direct call of one validator on a table that has, next to the target  *)
(* column, one more column the call does not name.                         *)
(***************************************************************************)
ExtraColumns == {"other", "multiplier", "weight_per_item", "unit"}

ExtraCell == StrCell(<<"k", "e", "e", "p">>)

MakeFrame(cells, extra) ==
  [cols |-> <<ValueColumn, extra>>,
   rows |-> [i \in DOMAIN cells |->
               [idx |-> i,
                c |-> [x \in {ValueColumn, extra} |->
                         IF x = ValueColumn THEN cells[i] ELSE ExtraCell]]]]

InitFrame ==
  /\ entity \in Validators
  /\ args \in ArgsOf(entity)
  /\ \E n \in 1..MaxRows :
        \E cells \in [1..n -> CellsOf(entity)] :
           \E extra \in ExtraColumns : raw = MakeFrame(cells, extra)
  /\ df = raw
  /\ pc = "validate"
  /\ step = 0
  /\ result = EmptyFrame
  /\ err = "none"
  /\ trace = <<>>
  /\ run = 1
  /\ io = NoIo

SpecFrame == InitFrame /\ [][NextValidators]_vars

(***************************************************************************)
(* Pipeline calls and direct validator calls together.                     *)
(***************************************************************************)
InitAll == Init \/ InitValidators

NextAll == Next \/ NextValidators

SpecAll == InitAll /\ [][NextAll]_vars

(***************************************************************************)
(* Properties.                                                             *)
(***************************************************************************)
Returned(e) == entity = e /\ pc = "done" /\ Len(raw.rows) > 0 /\ run = 1

KeptIdx == {result.rows[i].idx : i \in DOMAIN result.rows}

RawIdx == DOMAIN raw.rows

RawCell(i, col) == raw.rows[i].c[col]

NullTexts == {<<"N", "U", "L", "L">>, <<"N", "/", "A">>, <<"N", "U", "L", "L", "\n">>, <<"N", "/", "A", "\n">>}

Present(x) == x.k = "str" /\ x.v \notin NullTexts

DigitFree(x) == \A i \in DOMAIN x.v : x.v[i] \notin Digits

DigitCount(x) == Cardinality({i \in DOMAIN x.v : x.v[i] \in Digits})

NumericOk(x) ==
  Present(x) /\ Strip(x.v) # <<>> /\ AllIn(Strip(x.v), Digits \cup {".", "-"})

InList(x, L) == Present(x) /\ Strip(x.v) \in L

Occurrences(name) == Cardinality({i \in DOMAIN trace : trace[i] = name})

(* C1: running a pipeline again on the non-empty table it returned         *)
(* completes without error and returns that same table.                    *)
C1_Idempotent ==
  run = 2 /\ pc \in {"done", "raised"} => pc = "done" /\ result = raw

(* C2: no column validator ever raises; a cell it cannot interpret becomes *)
(* the absent marker.                                                      *)
C2_ValidatorsTotal == pc # "raised"

(* C3: a call with a table of zero rows returns a table of zero rows, runs *)
(* no later stage and leaves the table as it was; a call with at least one *)
(* row enters the pipeline body exactly once.                              *)
C3_EmptyInputGuard ==
  /\ Len(raw.rows) = 0 => trace = <<>> /\ df = raw /\ pc \in {"call", "done"}
  /\ Len(raw.rows) = 0 /\ pc = "done" => Len(result.rows) = 0
  /\ Len(raw.rows) > 0 /\ pc \in {"body", "done", "raised"}
       => Occurrences("body") = 1

C3_Witness ==
  pc = "done" /\ Len(raw.rows) = 0 /\ result = EmptyFrame /\ raw.cols # <<>>

(* C4: clean_user_data keeps exactly the rows whose first_name and         *)
(* last_name are present and digit-free, whatever the other columns hold.  *)
NameOk(x) == Present(x) /\ DigitFree(x)

C4_UserCompleteness ==
  Returned("user") =>
    KeptIdx = {i \in RawIdx : /\ NameOk(RawCell(i, "first_name"))
                              /\ NameOk(RawCell(i, "last_name"))}

C4_Witness ==
  /\ Returned("user")
  /\ \E i \in RawIdx \ KeptIdx :
        /\ RawCell(i, "last_name") = StrCell(<<"N", "/", "A">>)
        /\ NameOk(RawCell(i, "first_name"))
  /\ \E j \in DOMAIN result.rows :
        \E col \in {"country", "country_code", "date_of_birth", "join_date",
                    "phone_number", "email_address"} :
           IsNa(result.rows[j].c[col])

(* C5: clean_products_data keeps exactly the rows in which every column is *)
(* non-absent after cleaning, and no row it returns holds an absent value. *)
ProductCellOk(col, x) ==
  CASE col = "weight" ->
         Present(x) /\ \E i \in DOMAIN x.v : WeightAt(x.v, i)
    [] col = "product_price" ->
         /\ Present(x)
         /\ Len(Strip(x.v)) > 2
         /\ SubSeq(Strip(x.v), 1, 2) = <<"A^", "GBP">>
         /\ NumericOk(StrCell(SubSeq(Strip(x.v), 3, Len(Strip(x.v)))))
    [] col = "date_added" -> Present(x) /\ IsIsoDate(x.v)
    [] col = "category" -> InList(x, product_categories)
    [] OTHER -> Present(x)

C5_ProductCompleteness ==
  Returned("products") =>
    /\ KeptIdx = {i \in RawIdx :
                    \A col \in ColSet(result) :
                       ProductCellOk(col, RawCell(i, col))}
    /\ \A j \in DOMAIN result.rows : \A col \in ColSet(result) :
          ~IsNa(result.rows[j].c[col])

C5_Witness ==
  /\ Returned("products")
  /\ KeptIdx # {}
  /\ \E i \in RawIdx \ KeptIdx :
        \/ RawCell(i, "weight") = StrCell(<<"h", "e", "a", "v", "y">>)
        \/ RawCell(i, "product_price") = StrCell(<<"1", "2", ".", "5", "0">>)
        \/ RawCell(i, "date_added") = StrCell(<<"X", "Y", "Z">>)
        \/ RawCell(i, "category") = StrCell(<<"c", "a", "r">>)

(* C6 as stated: clean_store_data keeps exactly the rows whose address,    *)
(* store_type and country_code are non-absent after cleaning.              *)
StoreTypeOk(i) == NameOk(RawCell(i, "store_type"))

StoreCountryOk(i) == InList(RawCell(i, "country_code"), {<<"D", "E">>, <<"G", "B">>, <<"U", "S">>})

C6_StoreCompletenessAddress ==
  Returned("store") =>
    KeptIdx = {i \in RawIdx : /\ Present(RawCell(i, "address"))
                              /\ StoreTypeOk(i)
                              /\ StoreCountryOk(i)}

(* C6 amended: clean_store_data keeps exactly the rows whose store_code,   *)
(* store_type and country_code are non-absent after cleaning; an absent    *)
(* value in any other column, address included, never drops a row.         *)
C6_StoreCompleteness ==
  Returned("store") =>
    KeptIdx = {i \in RawIdx : /\ Present(RawCell(i, "store_code"))
                              /\ StoreTypeOk(i)
                              /\ StoreCountryOk(i)}

C6_Witness ==
  /\ Returned("store")
  /\ \E i \in KeptIdx : RawCell(i, "address") = StrCell(<<"N", "/", "A">>)
  /\ \E i \in RawIdx \ KeptIdx : RawCell(i, "store_code") = StrCell(<<"N", "U", "L", "L">>)

(* C7: clean_card_data keeps exactly the rows whose card_number has at     *)
(* least 8 digits, whose expiry_date parses as MM/YY and whose             *)
(* date_payment_confirmed parses as a date not later than the processing   *)
(* time; a future expiry date or an absent card_provider drops no row.     *)
C7_CardCompleteness ==
  Returned("card") =>
    KeptIdx = {i \in RawIdx :
                 /\ DigitCount(RawCell(i, "card_number")) >= 8
                 /\ IsMonthYear(RawCell(i, "expiry_date").v)
                 /\ IsIsoDate(RawCell(i, "date_payment_confirmed").v)
                 /\ IsoDate(RawCell(i, "date_payment_confirmed").v) <= Today}

C7_Witness ==
  /\ Returned("card")
  /\ \E i \in KeptIdx :
        /\ RawCell(i, "card_provider") = StrCell(<<"N", "U", "L", "L">>)
        /\ RawCell(i, "expiry_date") = StrCell(<<"0", "9", "/", "2", "6">>)
        /\ DigitCount(RawCell(i, "card_number")) = 8
  /\ \E i \in RawIdx \ KeptIdx :
        RawCell(i, "date_payment_confirmed") = StrCell(<<"2", "1", "0", "0", "-", "0", "1", "-", "0", "1">>)

(* C8 as stated: clean_date_time_data keeps exactly the rows whose         *)
(* time_period is in the allow-list and whose timestamp parses as          *)
(* HH:MM:SS, whatever month, day, year and date_uuid hold.                 *)
TimePeriodOk(i) ==
  InList(RawCell(i, "time_period"),
         {<<"E", "v", "e", "n", "i", "n", "g">>, <<"M", "o", "r", "n", "i", "n", "g">>, <<"M", "i", "d", "d", "a", "y">>, <<"L", "a", "t", "e", "_", "H", "o", "u", "r", "s">>})

TimestampOk(i) ==
  Present(RawCell(i, "timestamp")) /\ IsHourMinSec(RawCell(i, "timestamp").v)

C8_DateTimeTwoRequired ==
  Returned("date_time") =>
    KeptIdx = {i \in RawIdx : TimePeriodOk(i) /\ TimestampOk(i)}

(* C8 amended: clean_date_time_data keeps exactly the rows whose           *)
(* time_period is in the allow-list, whose timestamp parses as HH:MM:SS    *)
(* and whose month, day, year and date_uuid are all non-absent after       *)
(* cleaning.                                                               *)
C8_DateTimeCompleteness ==
  Returned("date_time") =>
    KeptIdx = {i \in RawIdx :
                 /\ TimePeriodOk(i)
                 /\ TimestampOk(i)
                 /\ \A col \in {"month", "day", "year"} :
                       NumericOk(RawCell(i, col))
                 /\ Present(RawCell(i, "date_uuid"))}

C8_Witness ==
  /\ Returned("date_time")
  /\ KeptIdx # {}
  /\ \E i \in RawIdx \ KeptIdx :
        /\ TimePeriodOk(i)
        /\ TimestampOk(i)
        /\ RawCell(i, "date_uuid") = StrCell(<<"N", "U", "L", "L">>)

(* C9: clean_orders_data drops no row, and removes a column only if every  *)
(* cell of it is absent after cleaning.                                    *)
OrderCellOk(col, x) ==
  CASE col = "card_number" -> Present(x) /\ DigitCount(x) >= 8
    [] col = "product_quantity" -> NumericOk(x)
    [] OTHER -> Present(x)

OrdersKeptColumns ==
  {col \in ColSet(raw) \ (unwanted_columns \cup {"first_name", "last_name"}) :
     \E i \in RawIdx : OrderCellOk(col, RawCell(i, col))}

C9_OrdersColumns ==
  Returned("orders") =>
    /\ KeptIdx = RawIdx
    /\ ColSet(result) = OrdersKeptColumns

(* C10 as stated: null normalisation replaces exactly the cells whose text *)
(* is 'NULL' or 'N/A' and leaves every other cell unchanged.               *)
C10_NullsExact ==
  pc = "prune" =>
    \A i \in RawIdx : \A col \in ColSet(raw) :
       df.rows[i].c[col] =
         IF RawCell(i, col).v \in {<<"N", "U", "L", "L">>, <<"N", "/", "A">>} THEN NaN
         ELSE RawCell(i, col)

(* C10 amended: null normalisation replaces exactly the cells whose text   *)
(* is 'NULL' or 'N/A', alone or followed by one final newline, in every    *)
(* column and before any validator runs, and leaves every other cell       *)
(* unchanged; no cell of a returned table is the text 'NULL' or 'N/A'.     *)
C10_NullNormalization ==
  /\ pc = "prune" =>
       \A i \in RawIdx : \A col \in ColSet(raw) :
          df.rows[i].c[col] =
            IF RawCell(i, col).v \in {<<"N", "U", "L", "L">>, <<"N", "/", "A">>, <<"N", "U", "L", "L", "\n">>, <<"N", "/", "A", "\n">>}
            THEN NaN ELSE RawCell(i, col)
  /\ pc = "prune" => trace = <<"standardize_nulls">>
  /\ pc = "done" =>
       \A j \in DOMAIN result.rows : \A col \in ColSet(result) :
          result.rows[j].c[col].k = "str" =>
            result.rows[j].c[col].v \notin {<<"N", "U", "L", "L">>, <<"N", "/", "A">>}

C10_Witness ==
  /\ pc = "prune"
  /\ entity = "user"
  /\ \E i \in RawIdx :
        /\ RawCell(i, "last_name") = StrCell(<<"N", "/", "A">>)
        /\ df.rows[i].c["last_name"] = NaN
  /\ \E i \in RawIdx :
        /\ RawCell(i, "company") = StrCell(<<"N", "U", "L", "L", " ">>)
        /\ df.rows[i].c["company"] = StrCell(<<"N", "U", "L", "L", " ">>)

(***************************************************************************)
(* Properties of the column validators, checked on direct calls.           *)
(***************************************************************************)
Called(v) == entity = v /\ pc \in {"done", "raised"}

ValueIn(i) == raw.rows[i].c[ValueColumn]

ValueOut(i) == result.rows[i].c[ValueColumn]

TrimmedIn(i) == Strip(AsText(ValueIn(i)))

SameRows == Len(result.rows) = Len(raw.rows)

NumericChars == {"0", "1", "2", "3", "4", "5", "6", "7", "8", "9", ".", "-"}

(* C11: without a currency token clean_numeric_cols completes and maps     *)
(* each cell on its own: a trimmed cell with a character other than        *)
(* digits, '.' and '-' becomes absent, '12.5' becomes 12.5, '-3' becomes   *)
(* -3.0 and '12.5.3' becomes absent.                                       *)
C11_NumericNoCurrency ==
  Called("clean_numeric_cols") /\ args.currency_code = NoCurrency =>
    /\ pc = "done"
    /\ SameRows
    /\ \A i \in RawIdx :
          /\ ~AllIn(TrimmedIn(i), NumericChars) => ValueOut(i) = NaN
          /\ TrimmedIn(i) = <<"1", "2", ".", "5">> => ValueOut(i) = FloatCell(<<125, 1>>)
          /\ TrimmedIn(i) = <<"-", "3">> => ValueOut(i) = FloatCell(<<0 - 3, 0>>)
          /\ TrimmedIn(i) = <<"1", "2", ".", "5", ".", "3">> => ValueOut(i) = NaN

(* C12 as stated: with currency token t a trimmed cell passes exactly when *)
(* the text left after a leading t is stripped, when present, consists of  *)
(* digits, '.' and '-' only; a passing cell stays text and a failing cell  *)
(* becomes absent.                                                         *)
AfterToken(s, t) ==
  IF Len(s) >= Len(t) /\ SubSeq(s, 1, Len(t)) = t
  THEN SubSeq(s, Len(t) + 1, Len(s)) ELSE s

PassesTokenOptional(s, t) ==
  AfterToken(s, t) # <<>> /\ AllIn(AfterToken(s, t), NumericChars)

LeftTrim(s) ==
  IF s # <<>> /\ Head(s) \in Whitespace
  THEN SubSeq(s, 1 + Len(s) - Len(Strip(s)), Len(s)) ELSE s

PassesTokenRequired(s, t) ==
  /\ Len(s) > Len(t)
  /\ SubSeq(s, 1, Len(t)) = t
  /\ LeftTrim(AfterToken(s, t)) # <<>>
  /\ AllIn(LeftTrim(AfterToken(s, t)), NumericChars)

MultiplierOf(m) ==
  CASE m = <<>> -> 1 [] m = <<"1", "0", " ", "x", " ">> -> 10 [] m = <<"3", "X">> -> 3

MagnitudeOf(n) == CASE n = <<"2", "0", "0">> -> <<200, 0>> [] n = <<"1", ".", "5">> -> <<15, 1>>

FactorOf(u) ==
  CASE u = <<"g">> -> <<1, 3>>
    [] u = <<"k", "g">> -> <<1, 0>>
    [] u = <<"m", "l">> -> <<1, 3>>
    [] u = <<"o", "z">> -> <<283495, 7>>
    [] u = <<" ", "K", "G">> -> <<1, 0>>

Kilograms(m, n, u) ==
  NormFloat(<<MagnitudeOf(n)[1] * MultiplierOf(m) * FactorOf(u)[1],
              MagnitudeOf(n)[2] + FactorOf(u)[2]>>)

WeightExamples == {<<"2", "k", "g">>, <<"5", "0", "0", "m", "l">>, <<"1", "o", "z">>}

C13_WeightParser ==
  Called("convert_product_weights") =>
    /\ pc = "raised" =>
          \E i \in RawIdx :
             ValueIn(i).k = "str" /\ ValueIn(i).v \notin WeightTexts \cup WeightExamples
    /\ pc = "done" =>
          /\ SameRows
          /\ \A i \in RawIdx :
                /\ \A m \in WeightMultipliers : \A n \in WeightMagnitudes :
                      \A u \in WeightUnits :
                         ValueIn(i) = StrCell(m \o n \o u)
                            => ValueOut(i) = FloatCell(Kilograms(m, n, u))
                /\ ValueIn(i) = StrCell(<<"1", "0", " ", "x", " ", "2", "0", "0", "g">>)
                      => ValueOut(i) = FloatCell(<<2, 0>>)
                /\ ValueIn(i) = StrCell(<<"5", "0", "0", "m", "l">>)
                      => ValueOut(i) = FloatCell(<<5, 1>>)
                /\ ValueIn(i) = StrCell(<<"2", "k", "g">>)
                      => ValueOut(i) = FloatCell(<<2, 0>>)
                /\ ValueIn(i) = StrCell(<<"1", "o", "z">>)
                      => ValueOut(i) = FloatCell(<<283495, 7>>)

C13_Witness ==
  /\ entity = "convert_product_weights"
  /\ pc = "done"
  /\ \E i \in RawIdx : \E j \in RawIdx :
        /\ ValueIn(i) = StrCell(<<"1", "0", " ", "x", " ", "2", "0", "0", "g">>)
        /\ ValueOut(i) = FloatCell(<<2, 0>>)
        /\ ValueIn(j) = StrCell(<<"1", "o", "z">>)
        /\ ValueOut(j) = FloatCell(<<283495, 7>>)

(* C14: clean_emails trims the cell, turns every run of two or more '@'    *)
(* into one '@' and keeps the text exactly when it reads local '@' domain  *)
(* '.' suffix, each part non-empty, no part holding '@' and the suffix     *)
(* holding no '.'; any other cell becomes absent.  'a@@b.co' is kept as    *)
(* 'a@b.co', 'a@b@c.co' becomes absent and a kept cell has one '@'.        *)
RunsCollapsed(s) ==
  LET drop == {i \in DOMAIN s : i > 1 /\ s[i] = "@" /\ s[i - 1] = "@"}
      F[i \in 0..Len(s)] ==
        IF i = 0 THEN <<>>
        ELSE IF i \in drop THEN F[i - 1] ELSE Append(F[i - 1], s[i])
  IN F[Len(s)]

EmailShape(s) ==
  \E a \in DOMAIN s : \E d \in DOMAIN s :
     /\ 1 < a /\ a + 1 < d /\ d < Len(s)
     /\ s[a] = "@" /\ s[d] = "."
     /\ "@" \notin Range(SubSeq(s, 1, a - 1))
     /\ "@" \notin Range(SubSeq(s, a + 1, d - 1))
     /\ Range(SubSeq(s, d + 1, Len(s))) \cap {"@", "."} = {}

C14_EmailValidator ==
  Called("clean_emails") =>
    /\ pc = "done"
    /\ SameRows
    /\ \A i \in RawIdx :
          /\ ValueOut(i) =
               IF EmailShape(RunsCollapsed(TrimmedIn(i)))
               THEN StrCell(RunsCollapsed(TrimmedIn(i))) ELSE NaN
          /\ ValueOut(i).k = "str" =>
               Cardinality({n \in DOMAIN ValueOut(i).v :
                              ValueOut(i).v[n] = "@"}) = 1
          /\ ValueIn(i) = StrCell(<<"a", "@", "@", "b", ".", "c", "o">>) => ValueOut(i) = StrCell(<<"a", "@", "b", ".", "c", "o">>)
          /\ ValueIn(i) = StrCell(<<"a", "@", "b", "@", "c", ".", "c", "o">>) => ValueOut(i) = NaN

C14_Witness ==
  /\ entity = "clean_emails"
  /\ pc = "done"
  /\ \E i \in RawIdx : \E j \in RawIdx :
        /\ ValueIn(i) = StrCell(<<"a", "@", "@", "b", ".", "c", "o">>)
        /\ ValueOut(i) = StrCell(<<"a", "@", "b", ".", "c", "o">>)
        /\ ValueIn(j) = StrCell(<<"a", "@", "b", "@", "c", ".", "c", "o">>)
        /\ ValueOut(j) = NaN

(* C15: clean_phone_numbers keeps of each cell only digits, '(', ')', 'X', *)
(* 'x' and '+'; a cell left with fewer than 7 digits becomes absent and a  *)
(* cell with 7 or more digits is kept as the stripped text.                *)
RetainedChars ==
  {"0", "1", "2", "3", "4", "5", "6", "7", "8", "9", "(", ")", "X", "x", "+"}

C15_PhoneValidator ==
  Called("clean_phone_numbers") =>
    /\ pc = "done"
    /\ SameRows
    /\ \A i \in RawIdx :
          /\ ValueIn(i).k = "str" =>
               ValueOut(i) =
                 IF DigitCount(ValueIn(i)) < 7 THEN NaN
                 ELSE StrCell(KeepOnly(ValueIn(i).v, RetainedChars))
          /\ ValueIn(i) = NaN => ValueOut(i) = NaN
          /\ ValueOut(i).k = "str" => AllIn(ValueOut(i).v, RetainedChars)
          /\ ValueIn(i) = StrCell(<<"(", "0", "2", "0", ")", " ", "7", "9", "4", "6", " ", "0", "9", "5", "8">>)
               => ValueOut(i) = StrCell(<<"(", "0", "2", "0", ")", "7", "9", "4", "6", "0", "9", "5", "8">>)
          /\ ValueIn(i) = StrCell(<<"1", "2", "3", "4", "5", "6">>) => ValueOut(i) = NaN

C15_Witness ==
  /\ entity = "clean_phone_numbers"
  /\ pc = "done"
  /\ \E i \in RawIdx : \E j \in RawIdx :
        /\ ValueIn(i) = StrCell(<<"(", "0", "2", "0", ")", " ", "7", "9", "4", "6", " ", "0", "9", "5", "8">>)
        /\ ValueOut(i) = StrCell(<<"(", "0", "2", "0", ")", "7", "9", "4", "6", "0", "9", "5", "8">>)
        /\ ValueIn(j) = StrCell(<<"1", "2", "3", "4", "5", "6">>)
        /\ ValueOut(j) = NaN

(* C16: clean_card_numbers removes every non-digit of a cell; with fewer   *)
(* than 8 digits left, none included, the cell becomes absent, otherwise   *)
(* it is the digit string: 8 digits are kept, 7 are not.                   *)
C16_CardNumberValidator ==
  Called("clean_card_numbers") =>
    /\ pc = "done"
    /\ SameRows
    /\ \A i \in RawIdx :
          /\ ValueIn(i).k = "str" =>
               ValueOut(i) =
                 IF DigitCount(ValueIn(i)) < 8 THEN NaN
                 ELSE StrCell(SelectSeq(ValueIn(i).v, IsDigit))
          /\ ValueIn(i) = NaN => ValueOut(i) = NaN
          /\ ValueOut(i).k = "str" =>
               AllIn(ValueOut(i).v, Digits) /\ Len(ValueOut(i).v) >= 8
          /\ ValueIn(i) = StrCell(<<"4", "1", "1", "1", "-", "1", "1", "1", "1">>)
               => ValueOut(i) = StrCell(<<"4", "1", "1", "1", "1", "1", "1", "1">>)
          /\ ValueIn(i) = StrCell(<<"4", "1", "1", " ", "1", "1", "1">>) => ValueOut(i) = NaN

C16_Witness ==
  /\ entity = "clean_card_numbers"
  /\ pc = "done"
  /\ \E i \in RawIdx : \E j \in RawIdx :
        /\ ValueIn(i) = StrCell(<<"4", "1", "1", "1", "-", "1", "1", "1", "1">>)
        /\ ValueOut(i) = StrCell(<<"4", "1", "1", "1", "1", "1", "1", "1">>)
        /\ ValueIn(j) = StrCell(<<"1", "2", "3", "4", "5", "6", "7">>)
        /\ ValueOut(j) = NaN

(* C17: clean_dates turns an unparseable cell into the null date; with     *)
(* future_dates_valid=False a parsed date later than the processing time   *)
(* becomes the null date too, so that no date left is in the future; with  *)
(* future_dates_valid=True a parsed future date is kept.                   *)
C17_DateValidator ==
  Called("clean_dates") =>
    /\ pc = "done"
    /\ SameRows
    /\ \A i \in RawIdx :
          /\ ValueIn(i).k # "str" \/ ~IsIsoDate(ValueIn(i).v)
               => ValueOut(i) = NaT
          /\ ValueIn(i).k = "str" /\ IsIsoDate(ValueIn(i).v) =>
               ValueOut(i) =
                 IF ~args.future_dates_valid /\ IsoDate(ValueIn(i).v) > Today
                 THEN NaT ELSE DateCell(IsoDate(ValueIn(i).v))
          /\ ~args.future_dates_valid /\ ValueOut(i).k = "date"
               => ValueOut(i).v[1] <= Today
          /\ ValueIn(i) = StrCell(<<"2", "0", "2", "5", "-", "0", "1", "-", "0", "1">>) =>
               ValueOut(i) = IF args.future_dates_valid
                             THEN DateCell(20250101) ELSE NaT
          /\ ValueIn(i) = StrCell(<<"1", "9", "9", "0", "-", "0", "5", "-", "0", "5">>)
               => ValueOut(i) = DateCell(19900505)

C17_Witness ==
  /\ entity = "clean_dates"
  /\ pc = "done"
  /\ ~args.future_dates_valid
  /\ \E i \in RawIdx : \E j \in RawIdx :
        /\ ValueIn(i) = StrCell(<<"2", "0", "2", "5", "-", "0", "1", "-", "0", "1">>)
        /\ ValueOut(i) = NaT
        /\ ValueIn(j) = StrCell(<<"1", "9", "9", "0", "-", "0", "5", "-", "0", "5">>)
        /\ ValueOut(j) = DateCell(19900505)

(* C18: clean_categories trims each cell and keeps the trimmed text        *)
(* exactly when it is in the allow-list, compared case-sensitively; every  *)
(* other cell becomes absent.  With DE, GB, US: 'GB' stays, '  gb ' and    *)
(* 'FR' become absent.                                                     *)
C18_CategoryValidator ==
  Called("clean_categories") =>
    /\ pc = "done"
    /\ SameRows
    /\ \A i \in RawIdx :
          /\ ValueOut(i) =
               IF TrimmedIn(i) \in {<<"D", "E">>, <<"G", "B">>, <<"U", "S">>}
               THEN StrCell(TrimmedIn(i)) ELSE NaN
          /\ ValueIn(i) = StrCell(<<"G", "B">>) => ValueOut(i) = StrCell(<<"G", "B">>)
          /\ ValueIn(i) \in {StrCell(<<" ", " ", "g", "b", " ">>), StrCell(<<"F", "R">>)}
               => ValueOut(i) = NaN

C18_Witness ==
  /\ entity = "clean_categories"
  /\ pc = "done"
  /\ \E i \in RawIdx : \E j \in RawIdx :
        /\ ValueIn(i) = StrCell(<<" ", "U", "S", " ">>)
        /\ ValueOut(i) = StrCell(<<"U", "S">>)
        /\ ValueIn(j) = StrCell(<<" ", " ", "g", "b", " ">>)
        /\ ValueOut(j) = NaN

(* C19: clean_alpha_cols turns every cell whose text holds a decimal digit *)
(* into the absent marker and leaves every other cell, an absent one       *)
(* included, as it was.                                                    *)
C19_AlphaValidator ==
  Called("clean_alpha_cols") =>
    /\ pc = "done"
    /\ SameRows
    /\ \A i \in RawIdx :
          ValueOut(i) =
            IF ValueIn(i).k = "str" /\ DigitCount(ValueIn(i)) > 0
            THEN NaN ELSE ValueIn(i)

C19_Witness ==
  /\ entity = "clean_alpha_cols"
  /\ pc = "done"
  /\ \E i \in RawIdx : \E j \in RawIdx :
        /\ ValueIn(i) = StrCell(<<"a", " ", "b", "\n", "7">>)
        /\ ValueOut(i) = NaN
        /\ ValueIn(j) = StrCell(<<"O", "'", "N", "e", "i", "l", "-", "S", "m", "i", "t", "h">>)
        /\ ValueOut(j) = ValueIn(j)

(***************************************************************************)
(* Properties of the pipelines on tables that lack a column.               *)
(***************************************************************************)
(* C20: a pipeline called with a non-empty table that lacks a column       *)
(* outside the entity's required set skips the steps for that column and   *)
(* returns the cleaned table: no step fails on the missing column.         *)
C20_MissingOptionalTolerated ==
  RequiredOf(entity) \subseteq ColSet(raw) =>
    /\ pc = "raised" => err \notin {"KeyError", "AttributeError"}
    /\ pc = "done" => ColSet(result) \subseteq ColSet(raw)

MissingRequired == ~(RequiredOf(entity) \subseteq ColSet(raw))

DeclaredOrder(e) ==
  CASE e = "user" ->
         <<"clean_alpha_cols", "clean_dates", "replace", "clean_categories",
           "clean_phone_numbers", "clean_emails", "dropna">>
    [] e = "card" ->
         <<"clean_card_numbers", "clean_dates", "clean_dates", "dropna">>
    [] e = "store" ->
         <<"clean_dates", "clean_categories", "repair", "clean_categories",
           "clean_alpha_cols", "clean_numeric_cols", "dropna">>
    [] e = "products" ->
         <<"convert_product_weights", "clean_numeric_cols", "clean_dates",
           "clean_categories", "replace", "dropna">>
    [] e = "orders" ->
         <<"drop", "clean_card_numbers", "clean_numeric_cols", "dropna">>
    [] e = "date_time" ->
         <<"clean_numeric_cols", "clean_categories", "dropna", "astype">>

IsPrefix(s, t) == Len(s) <= Len(t) /\ s = SubSeq(t, 1, Len(s))

StagesInOrder ==
  /\ pc \in {"call", "nulls"} => trace = <<>> /\ df = raw
  /\ pc = "prune" => trace = <<"standardize_nulls">>
  /\ pc \in {"body", "raised"} \/ (pc = "done" /\ Len(raw.rows) > 0) =>
        /\ Len(trace) >= 3
        /\ SubSeq(trace, 1, 3)
             = <<"standardize_nulls", "drop_unwanted_columns", "body">>
        /\ IsPrefix(SubSeq(trace, 4, Len(trace)), DeclaredOrder(entity))
  /\ pc = "done" /\ Len(raw.rows) > 0 =>
        SubSeq(trace, 4, Len(trace)) = DeclaredOrder(entity)

ResultIdx == DOMAIN result.rows

SourceCell(j, col) == raw.rows[result.rows[j].idx].c[col]

Position(name) == CHOOSE i \in DOMAIN trace : trace[i] = name

(* C23: clean_user_data corrects 'GGB' to 'GB' before it validates         *)
(* country_code, so a surviving row that came with 'GGB' ends with 'GB';   *)
(* clean_store_data strips the leading 'ee' of continent and capitalizes   *)
(* it before it validates continent, so 'eeEurope' and 'eeAmerica' end as  *)
(* 'Europe' and 'America'.                                                 *)
C23_RepairsBeforeValidation ==
  /\ Returned("user") =>
        /\ Position("replace") < Position("clean_categories")
        /\ \A j \in ResultIdx :
              SourceCell(j, "country_code") = StrCell(<<"G", "G", "B">>)
                 => result.rows[j].c["country_code"] = StrCell(<<"G", "B">>)
  /\ Returned("store") =>
        /\ \A i \in DOMAIN trace :
              trace[i] = "clean_categories" /\ i > Position("clean_categories")
                 => Position("repair") < i
        /\ \A j \in ResultIdx :
              /\ SourceCell(j, "continent") = StrCell(<<"e", "e", "E", "u", "r", "o", "p", "e">>)
                    => result.rows[j].c["continent"] = StrCell(<<"E", "u", "r", "o", "p", "e">>)
              /\ SourceCell(j, "continent") = StrCell(<<"e", "e", "A", "m", "e", "r", "i", "c", "a">>)
                    => result.rows[j].c["continent"] = StrCell(<<"A", "m", "e", "r", "i", "c", "a">>)

C23_Witness ==
  /\ Returned("user")
  /\ \E j \in ResultIdx :
        /\ SourceCell(j, "country_code") = StrCell(<<"G", "G", "B">>)
        /\ result.rows[j].c["country_code"] = StrCell(<<"G", "B">>)

ArtifactColumns == {"index", "Unnamed: 0", "level_0", "1"}

NameColumns == {"first_name", "last_name"}

(* C25: pruning removes the columns 'index', 'Unnamed: 0', 'level_0' and   *)
(* '1' (and in clean_orders_data 'first_name' and 'last_name'), no other   *)
(* column and no row, and no table a pipeline returns for a non-empty      *)
(* input has one of these columns.                                         *)
C25_ColumnPruning ==
  /\ pc = "body" /\ step = 1 =>
        /\ df.cols = SelectSeq(raw.cols, LAMBDA x : x \notin ArtifactColumns)
        /\ Len(df.rows) = Len(raw.rows)
  /\ pc = "body" /\ step = 2 /\ entity = "orders" =>
        /\ df.cols = SelectSeq(raw.cols,
                               LAMBDA x : x \notin ArtifactColumns \cup NameColumns)
        /\ Len(df.rows) = Len(raw.rows)
  /\ pc = "done" /\ Len(raw.rows) > 0 =>
        /\ ColSet(result) \cap ArtifactColumns = {}
        /\ entity = "orders" => ColSet(result) \cap NameColumns = {}

C25_Witness ==
  /\ Returned("orders")
  /\ ArtifactColumns \cap ColSet(raw) = {"index", "level_0", "1"}
  /\ NameColumns \subseteq ColSet(raw)
  /\ ColSet(result) \cap (ArtifactColumns \cup NameColumns) = {}
  /\ "product_code" \in ColSet(result)
  /\ Len(result.rows) = Len(raw.rows)

(* C26: in the table clean_date_time_data returns, the timestamp of every  *)
(* row is exactly the text the row came with; parsing decides validity     *)
(* only.                                                                   *)
C26_TimestampPreserved ==
  Returned("date_time") =>
    \A j \in ResultIdx :
       /\ HasCol(result, "timestamp")
       /\ result.rows[j].c["timestamp"] = SourceCell(j, "timestamp")
       /\ result.rows[j].c["timestamp"].k = "str"

C26_Witness ==
  /\ Returned("date_time")
  /\ \E j \in ResultIdx :
        result.rows[j].c["timestamp"] = StrCell(<<"2", "2", ":", "0", "0", ":", "0", "6">>)

(***************************************************************************)
(* Properties that relate a validator's result to the rest of the table.   *)
(***************************************************************************)
CellAlone(i) == CallValidator(entity, MakeColumn(<<ValueIn(i)>>), args)

(* C24: what a validator makes of a cell depends on that cell alone: the   *)
(* call on the whole column completes whenever the call on each cell by    *)
(* itself does, and gives each cell what the call on that cell by itself   *)
(* gives, whatever the other rows hold and in whatever order they come.    *)
C24_RowIndependence ==
  entity \in Validators /\ pc \in {"done", "raised"} =>
    \A i \in RawIdx :
       CellAlone(i).ok =>
          /\ pc = "done"
          /\ ValueOut(i) = CellAlone(i).df.rows[1].c[ValueColumn]

(* C27: a validator changes only the column it is given: the columns and   *)
(* their order, the rows and their order and every cell of every other     *)
(* column are after the call as before, also when the table has a column   *)
(* named 'multiplier', 'weight_per_item' or 'unit'.                        *)
C27_ValidatorFrame ==
  entity \in Validators /\ pc = "done" =>
    /\ result.cols = raw.cols
    /\ Len(result.rows) = Len(raw.rows)
    /\ \A i \in RawIdx :
          /\ result.rows[i].idx = raw.rows[i].idx
          /\ \A col \in ColSet(raw) \ {ValueColumn} :
                result.rows[i].c[col] = raw.rows[i].c[col]

AbsentOnEntry(x) == x.k \in {"nan", "nat"} \/ (x.k = "str" /\ x.v \in NullTexts)

(* C28: a cell that is absent when a validator is entered is absent when   *)
(* it returns, and no pipeline returns a value in a cell that came in as   *)
(* 'NULL' or 'N/A': the text 'nan' of an absent cell passes no predicate,  *)
(* also not as 'Nan' after the continent repair of clean_store_data.       *)
C28_AbsentStaysAbsent ==
  /\ entity \in Validators /\ pc = "done" =>
        \A i \in RawIdx : IsNa(ValueIn(i)) => IsNa(ValueOut(i))
  /\ entity \in Entities /\ pc = "done" /\ Len(raw.rows) > 0 =>
        \A j \in ResultIdx : \A col \in ColSet(result) :
           AbsentOnEntry(SourceCell(j, col)) => IsNa(result.rows[j].c[col])

C28_Witness ==
  /\ entity = "store"
  /\ pc = "done"
  /\ \E j \in ResultIdx :
        /\ SourceCell(j, "continent") = StrCell(<<"N", "U", "L", "L">>)
        /\ result.rows[j].c["continent"] = NaN

(***************************************************************************)
(* DataExtractor (data_ingestion/data_extraction.py).  io holds one call   *)
(* of an operation: op the operation, num_stores the argument of           *)
(* retrieve_stores_data (for list_number_of_stores the number the API      *)
(* holds), data the records of the source, status the status codes the     *)
(* server gives to the successive GET requests, fault the statement that   *)
(* raises for another reason ("none": no statement does) and fault_no the  *)
(* loop iteration in which it does, stmt the position in the try block,    *)
(* store_no and store_data the loop variable and the list of the loop,     *)
(* sent the requests sent so far, exc the exception caught, ret the value  *)
(* returned.  The cleaning variables stay as NoCall leaves them.           *)
(***************************************************************************)
MaxStores == 3

cleaning == <<entity, raw, df, pc, step, result, err, trace, run, args>>

NoCall ==
  /\ entity = "none"
  /\ raw = EmptyFrame
  /\ df = EmptyFrame
  /\ pc = "idle"
  /\ step = 0
  /\ result = EmptyFrame
  /\ err = "none"
  /\ trace = <<>>
  /\ run = 0
  /\ args = NoArgs

ReadOperations ==
  {"extract_from_s3", "read_json", "read_rds_table", "retrieve_pdf_data", "retrieve_stores_data"}

Operations == ReadOperations \cup {"list_number_of_stores"}

(* the statements of the try block that can raise, in order; the loop of   *)
(* retrieve_stores_data is "for", "send_get_request", "append"             *)
TryBlock(op) ==
  CASE op = "extract_from_s3" -> <<"boto3.client", "re.split", "get_object", "read_csv">>
    [] op = "list_number_of_stores" -> <<"send_get_request", "json", "print">>
    [] op = "read_json" -> <<"send_get_request", "DataFrame">>
    [] op = "read_rds_table" -> <<"engine.url", "connect", "read_sql_query">>
    [] op = "retrieve_pdf_data" -> <<"read_pdf", "concat">>
    [] op = "retrieve_stores_data" -> <<"for", "send_get_request", "append", "DataFrame">>

(* r.status_code of a response: 200, or a refusal *)
StatusCodes == {200, 404}

(* pd.DataFrame(records) and a returned number *)
pdDataFrame(records) == [k |-> "DataFrame", rows |-> records]

IntValue(n) == [k |-> "int", v |-> n]

NotReturned == [k |-> "none"]

(* the number of GET requests an operation can send *)
Requests(op, n) ==
  CASE op = "retrieve_stores_data" -> n
    [] op \in {"list_number_of_stores", "read_json"} -> 1
    [] OTHER -> 0

(* the statements that can raise other than by the status of a response *)
Faults(op) == {"none"} \cup (Range(TryBlock(op)) \ {"for", "send_get_request"})

InitExtract ==
  /\ NoCall
  /\ \E op \in Operations :
     \E n \in 0..MaxStores :
     \E records \in {<<>>, <<"record">>} :
     \E st \in [1..Requests(op, n) -> StatusCodes] :
     \E f \in Faults(op) :
     \E k \in 0..(IF op = "retrieve_stores_data" /\ f = "append" /\ n > 0 THEN n - 1 ELSE 0) :
        /\ op \in {"retrieve_stores_data", "list_number_of_stores"} \/ n = 0
        /\ op \notin {"retrieve_stores_data", "list_number_of_stores"} \/ records = <<>>
        /\ f = "append" => n > 0
        /\ io = [op |-> op, num_stores |-> n, data |-> records, status |-> st,
                 fault |-> f, fault_no |-> k, stmt |-> 1, store_no |-> 0,
                 store_data |-> <<>>, sent |-> <<>>, exc |-> "none",
                 pc |-> "try", ret |-> NotReturned]

Stmt == TryBlock(io.op)[io.stmt]

(* the value the last statement of the try block returns *)
TryValue ==
  CASE io.op = "list_number_of_stores" -> IntValue(io.num_stores)
    [] io.op = "retrieve_stores_data" -> pdDataFrame(io.store_data)
    [] OTHER -> pdDataFrame(io.data)

(* mutant: the handler returns the stores collected so far *)
ExceptValueMutant ==
  IF io.op = "list_number_of_stores" THEN IntValue(0) ELSE pdDataFrame(io.store_data)

(* the value the except block returns: return 0, return pd.DataFrame() *)
ExceptValue ==
  IF io.op = "list_number_of_stores" THEN IntValue(0) ELSE pdDataFrame(<<>>)

(* a statement of the try block other than the loop and the GET request *)
TryStatement ==
  /\ io.pc = "try"
  /\ Stmt \notin {"for", "send_get_request", "append"}
  /\ io' = IF io.fault = Stmt
             THEN [io EXCEPT !.pc = "except", !.exc = "Exception"]
             ELSE IF io.stmt = Len(TryBlock(io.op))
                    THEN [io EXCEPT !.pc = "time_it", !.ret = TryValue]
                    ELSE [io EXCEPT !.stmt = io.stmt + 1]
  /\ UNCHANGED cleaning

(* for store_no in range(num_stores) *)
For ==
  /\ io.pc = "try"
  /\ Stmt = "for"
  /\ io' = IF Len(io.store_data) < io.num_stores
             THEN [io EXCEPT !.store_no = Len(io.store_data), !.stmt = io.stmt + 1]
             ELSE [io EXCEPT !.stmt = io.stmt + 3]
  /\ UNCHANGED cleaning

(* send_get_request: requests.get, assert r.status_code == 200 *)
SendGetRequest ==
  /\ io.pc = "try"
  /\ Stmt = "send_get_request"
  /\ LET url == IF io.op = "retrieve_stores_data" THEN io.store_no ELSE 0
         r == io.status[Len(io.sent) + 1]
     IN io' = IF r = 200
                THEN [io EXCEPT !.sent = Append(io.sent, url), !.stmt = io.stmt + 1]
                ELSE [io EXCEPT !.sent = Append(io.sent, url), !.pc = "except",
                                !.exc = "AssertionError"]
  /\ UNCHANGED cleaning

(* store_data.append(r.json()) *)
AppendJson ==
  /\ io.pc = "try"
  /\ Stmt = "append"
  /\ io' = IF io.fault = "append" /\ io.fault_no = io.store_no
             THEN [io EXCEPT !.pc = "except", !.exc = "Exception"]
             ELSE [io EXCEPT !.store_data = Append(io.store_data, io.store_no),
                             !.stmt = io.stmt - 2]
  /\ UNCHANGED cleaning

(* except Exception as err: print, return *)
Except ==
  /\ io.pc = "except"
  /\ io' = [io EXCEPT !.pc = "time_it", !.ret = ExceptValue]
  /\ UNCHANGED cleaning

(* time_it and print_newline return what the operation returned *)
time_it ==
  /\ io.pc = "time_it"
  /\ io' = [io EXCEPT !.pc = "returned"]
  /\ UNCHANGED cleaning

NextExtract ==
  \/ TryStatement
  \/ For
  \/ SendGetRequest
  \/ AppendJson
  \/ Except
  \/ time_it

SpecExtract == InitExtract /\ [][NextExtract]_vars

(***************************************************************************)
(* Properties of the extractor, under SpecExtract.                         *)
(***************************************************************************)
Refused == \E i \in 1..Len(io.sent) : io.status[i] # 200

(* C29: a DataExtractor operation in which a statement fails catches the   *)
(* failure and returns the empty table (list_number_of_stores: 0).         *)
(* retrieve_stores_data sends its requests for the store numbers 0, 1, ... *)
(* in increasing order without a gap, a request answered with another      *)
(* status than 200 is the last one sent, and the call then returns the     *)
(* empty table, not the stores collected before it.                        *)
C29_ExtractionFailure ==
  /\ io.exc # "none" => io.pc \in {"except", "time_it", "returned"}
  /\ io.pc = "returned" /\ io.exc # "none" =>
        io.ret = IF io.op = "list_number_of_stores" THEN IntValue(0) ELSE pdDataFrame(<<>>)
  /\ io.pc = "returned" /\ (io.fault # "none" \/ Refused) => io.exc # "none"
  /\ io.op = "retrieve_stores_data" =>
        /\ Len(io.sent) <= io.num_stores
        /\ \A i \in 1..Len(io.sent) : io.sent[i] = i - 1
        /\ \A i \in 1..(Len(io.sent) - 1) : io.status[i] = 200
        /\ io.pc = "returned" /\ Refused => io.ret = pdDataFrame(<<>>)
        /\ io.pc = "returned" /\ io.exc = "none" =>
              /\ Len(io.sent) = io.num_stores
              /\ io.ret = pdDataFrame(io.sent)

C29_Witness ==
  /\ io.op = "retrieve_stores_data"
  /\ io.pc = "returned"
  /\ io.num_stores = 3
  /\ io.status = <<200, 404, 200>>
  /\ io.store_data = <<0>>
  /\ io.sent = <<0, 1>>
  /\ io.ret = pdDataFrame(<<>>)

(***************************************************************************)
(* The load script milestone_2.py with DatabaseConnector                   *)
(* (database_utils.py).  io holds the run of the script: line the          *)
(* position in Script, db_connector_aws and db_connector_local the engine  *)
(* attribute of the two connectors ("Engine", or "None" when               *)
(* init_db_engine failed), df the table the script holds ("empty", "rows", *)
(* "bad_rows": rows on which the pipeline of the entity raises, "cleaned"),*)
(* num_stores, tables and orders_table the script's variables, log the     *)
(* calls made for the entities, target the tables written to the local     *)
(* database, exc the exception that left the script, pc "run", "exit" or   *)
(* "raised".  The local file written by to_excel is taken to be writable.  *)
(***************************************************************************)
ScriptOrder == <<"user", "card", "store", "products", "orders", "date_time">>

Phases == <<"extract", "clean", "upload">>

(* the statements of the script in order *)
Script ==
  << [op |-> "init_db_engine", e |-> "aws"],
     [op |-> "init_db_engine", e |-> "local"],
     [op |-> "read_rds_table", e |-> "user"],
     [op |-> "clean", e |-> "user"],
     [op |-> "upload_to_db", e |-> "user"],
     [op |-> "retrieve_pdf_data", e |-> "card"],
     [op |-> "clean", e |-> "card"],
     [op |-> "upload_to_db", e |-> "card"],
     [op |-> "list_number_of_stores", e |-> "store"],
     [op |-> "retrieve_stores_data", e |-> "store"],
     [op |-> "clean", e |-> "store"],
     [op |-> "upload_to_db", e |-> "store"],
     [op |-> "extract_from_s3", e |-> "products"],
     [op |-> "to_excel", e |-> "products"],
     [op |-> "clean", e |-> "products"],
     [op |-> "upload_to_db", e |-> "products"],
     [op |-> "list_db_tables", e |-> "orders"],
     [op |-> "orders_table", e |-> "orders"],
     [op |-> "read_rds_table", e |-> "orders"],
     [op |-> "clean", e |-> "orders"],
     [op |-> "upload_to_db", e |-> "orders"],
     [op |-> "read_json", e |-> "date_time"],
     [op |-> "clean", e |-> "date_time"],
     [op |-> "upload_to_db", e |-> "date_time"],
     [op |-> "print_db_tables", e |-> "local"] >>

(* the table names a source database can list *)
TableLists == {<<>>, <<"legacy_users">>, <<"legacy_users", "orders_table">>}

(* 'order' in x.lower() *)
HasOrder(x) == x = "orders_table"

InitLoad ==
  /\ NoCall
  /\ io = [line |-> 1, db_connector_aws |-> "unset", db_connector_local |-> "unset",
           df |-> "unset", num_stores |-> 0, tables |-> <<>>, orders_table |-> "unset",
           log |-> <<>>, target |-> {}, exc |-> "none", pc |-> "run"]

At(op) == io.pc = "run" /\ Script[io.line].op = op

Goto(s) == [s EXCEPT !.line = s.line + 1]

Logged(phase) == Append(io.log, <<Script[io.line].e, phase>>)

(* init_db_engine: the engine, or None when the credentials cannot be read *)
InitDbEngine ==
  /\ At("init_db_engine")
  /\ \E engine \in {"Engine", "None"} :
        io' = IF Script[io.line].e = "aws"
                THEN Goto([io EXCEPT !.db_connector_aws = engine])
                ELSE Goto([io EXCEPT !.db_connector_local = engine])
  /\ UNCHANGED cleaning

(* list_number_of_stores: the number of the API, 0 when the call failed *)
ListNumberOfStores ==
  /\ At("list_number_of_stores")
  /\ \E n \in 0..MaxStores : io' = Goto([io EXCEPT !.num_stores = n])
  /\ UNCHANGED cleaning

(* a DataExtractor read operation: the table of the source, or the empty   *)
(* table when a statement of it failed; read_rds_table fails without an    *)
(* engine, retrieve_stores_data collects nothing for num_stores = 0        *)
ReadOperation ==
  /\ io.pc = "run"
  /\ Script[io.line].op \in ReadOperations
  /\ \E t \in {"empty", "rows", "bad_rows"} :
        /\ Script[io.line].op = "read_rds_table" /\ io.db_connector_aws = "None" => t = "empty"
        /\ Script[io.line].op = "retrieve_stores_data" /\ io.num_stores = 0 => t = "empty"
        /\ io' = Goto([io EXCEPT !.df = t, !.log = Logged("extract")])
  /\ UNCHANGED cleaning

(* df.to_excel('products.xlsx') *)
ToExcel ==
  /\ At("to_excel")
  /\ io' = Goto(io)
  /\ UNCHANGED cleaning

(* list_db_tables: the table names, [] when the inspection failed *)
ListDbTables ==
  /\ At("list_db_tables")
  /\ \E names \in TableLists :
        /\ io.db_connector_aws = "None" => names = <<>>
        /\ io' = Goto([io EXCEPT !.tables = names])
  /\ UNCHANGED cleaning

(* orders_table = list(filter(lambda x: 'order' in x.lower(), tables))[0] *)
OrdersTable ==
  /\ At("orders_table")
  /\ LET found == SelectSeq(io.tables, HasOrder)
     IN io' = IF found = <<>>
                THEN [io EXCEPT !.pc = "raised", !.exc = "IndexError"]
                ELSE Goto([io EXCEPT !.orders_table = found[1]])
  /\ UNCHANGED cleaning

(* DataCleaning().clean_<entity>(df): skipped for the empty table; an      *)
(* exception of the pipeline (the ValueError of a cast, the KeyError of a  *)
(* missing column) is not caught by the script                             *)
Clean ==
  /\ At("clean")
  /\ io' = CASE io.df = "empty" -> Goto([io EXCEPT !.log = Logged("clean")])
             [] io.df = "rows" -> Goto([io EXCEPT !.df = "cleaned", !.log = Logged("clean")])
             [] OTHER -> [io EXCEPT !.log = Logged("clean"), !.pc = "raised",
                                    !.exc = "CleanError"]
  /\ UNCHANGED cleaning

(* upload_to_db: df.to_sql inside try; every failure is printed *)
UploadToDb ==
  /\ At("upload_to_db")
  /\ \E written \in BOOLEAN :
        /\ io.db_connector_local = "None" => ~written
        /\ io' = Goto([io EXCEPT !.log = Logged("upload"),
                                 !.target = IF written THEN io.target \cup {Script[io.line].e}
                                            ELSE io.target])
  /\ UNCHANGED cleaning

(* print_db_tables: self.engine.url.database outside any try *)
PrintDbTables ==
  /\ At("print_db_tables")
  /\ io' = IF io.db_connector_local = "None"
             THEN [io EXCEPT !.pc = "raised", !.exc = "AttributeError"]
             ELSE [io EXCEPT !.pc = "exit"]
  /\ UNCHANGED cleaning

NextLoad ==
  \/ InitDbEngine
  \/ ListNumberOfStores
  \/ ReadOperation
  \/ ToExcel
  \/ ListDbTables
  \/ OrdersTable
  \/ Clean
  \/ UploadToDb
  \/ PrintDbTables

SpecLoad == InitLoad /\ [][NextLoad]_vars

(***************************************************************************)
(* Properties of the load script, under SpecLoad.                          *)
(***************************************************************************)
FullLog ==
  [i \in 1..(Len(ScriptOrder) * Len(Phases)) |->
     <<ScriptOrder[((i - 1) \div Len(Phases)) + 1], Phases[((i - 1) % Len(Phases)) + 1]>>]

(* C30: the script extracts, cleans and uploads the entities in the order  *)
(* users, cards, stores, products, orders, date events; no exception       *)
(* leaves it before its last statement, so that it stops only at           *)
(* print_db_tables after the three calls for each of the six entities,     *)
(* whatever connection or extraction failed.                               *)
C30_LoadProgress ==
  /\ IsPrefix(io.log, FullLog)
  /\ io.pc \in {"exit", "raised"} =>
        /\ Script[io.line].op = "print_db_tables"
        /\ io.log = FullLog

====
